---- MODULE Spec2Model ----
(***************************************************************************)
(* A model of the runtime matching and binding algorithm of uutils-args:   *)
(* the code that derive/src/argument.rs generates for Arguments::next_arg  *)
(* and Arguments::check_missing, run by ArgumentIter (src/lib.rs) over a   *)
(* lexopt::Parser.                                                         *)
(*                                                                         *)
(* Text is a sequence of one-character strings: "--ab=x" is                *)
(* <<"-","-","a","b","=","x">>.  An Option<T> is a sequence of length 0    *)
(* (None) or 1 (Some).                                                     *)
(***************************************************************************)
EXTENDS Integers, Sequences, FiniteSets, TLC

VARIABLES
    help_flags,      \* help_flags.long: the designated help spellings
    arguments,       \* args: &[Argument], the declared enum variants in order
    parser,          \* ArgumentIter.parser: the lexopt::Parser
    positional_idx,  \* ArgumentIter.positional_idx
    call,            \* what the last call was given (a snapshot of the cursor before it)
    result,          \* what the last call returned
    input,           \* the arguments the cursor was made from, after the program name
    events,          \* what the calls of next_arg returned so far, but for Ok(None)
    attribute,       \* the #[positional(..)] attribute the derive is given
    overflow_checks, \* whether the derive is built with overflow checks
    positional_attr  \* what parse_positional_attr returned for it

vars == <<help_flags, arguments, parser, positional_idx, call, result, input, events,
          attribute, overflow_checks, positional_attr>>

----------------------------------------------------------------------------
(* Bounds of the model.                                                    *)

\* The largest number of long spellings (help spellings included) of a model.
MaxLong == 3
\* The largest number of tokens after the program name.
MaxArgs == 3
\* The largest number of positional slots of a model.
MaxSlots == 3
\* The width of usize in bits, scaled down from 64 (or 32).
UsizeBits == 4

\* usize::MAX, the end of an open range such as `..` or `1..`.
USIZE_MAX == 2^UsizeBits - 1

\* Addition in usize as a build without overflow checks computes it.  A build
\* with overflow checks panics instead, while the derive macro runs: that
\* build produces no program, so every program that runs is one this models.
wrapping_add(a, b) == (a + b) % (USIZE_MAX + 1)

----------------------------------------------------------------------------
(* Text.                                                                   *)

DASH == "-"
EQ == "="
\* A byte that is not valid UTF-8.
BAD == "~"

RECURSIVE SeqsUpTo(_, _)
SeqsUpTo(S, n) ==
    IF n = 0 THEN {<<>>}
    ELSE LET shorter == SeqsUpTo(S, n - 1)
         IN  shorter \cup {Append(s, x) : s \in {t \in shorter : Len(t) = n - 1}, x \in S}

Range(s) == {s[i] : i \in 1..Len(s)}
NoDuplicates(s) == Cardinality(Range(s)) = Len(s)
Drop(s, n) == SubSeq(s, n + 1, Len(s))
Take(s, n) == SubSeq(s, 1, n)

\* str::starts_with
starts_with(s, prefix) ==
    /\ Len(prefix) <= Len(s)
    /\ Take(s, Len(prefix)) = prefix

\* the index of the first element of s in S, 0 when there is none
RECURSIVE PositionFrom(_, _, _)
PositionFrom(s, S, i) ==
    IF i > Len(s) THEN 0
    ELSE IF s[i] \in S THEN i
    ELSE PositionFrom(s, S, i + 1)
position(s, S) == PositionFrom(s, S, 1)

None == <<>>
Some(x) == <<x>>

----------------------------------------------------------------------------
(* Results and errors (src/lib.rs).                                        *)

\* An Error.  `option` is an Option<String>; the fields a variant does not
\* have are empty.
Error(error, option, value, list) ==
    [tag |-> "Err", error |-> error, option |-> option, value |-> value, list |-> list]

MissingValue(option) == Error("MissingValue", option, <<>>, <<>>)
MissingPositionalArguments(names) == Error("MissingPositionalArguments", None, <<>>, names)
UnexpectedOption(s) == Error("UnexpectedOption", Some(s), <<>>, <<>>)
UnexpectedArgument(v) == Error("UnexpectedArgument", None, v, <<>>)
UnexpectedValue(option, value) == Error("UnexpectedValue", Some(option), value, <<>>)
AmbiguousOption(option, candidates) == Error("AmbiguousOption", Some(option), <<>>, candidates)
NonUnicodeValue(v) == Error("NonUnicodeValue", None, v, <<>>)
AmbiguousValue(option, value, candidates) ==
    Error("AmbiguousValue", Some(option), value, candidates)
\* ParsingFailed { option, value, error }: the kind of the ParseIntError is
\* the one element of the list
ParsingFailed(option, value, error) == Error("ParsingFailed", Some(option), value, <<error>>)

IsErr(r) == r.tag = "Err"

\* Ok(None): the end of the input
OkNone == [tag |-> "End"]
\* Ok(Some(Argument::Help))
Help == [tag |-> "Help"]
\* Ok(Some(Argument::Version))
Version == [tag |-> "Version"]
\* Ok(Some(Argument::Custom(Self::ident))), a variant without a field
Custom(ident) == [tag |-> "Custom", ident |-> ident, fields |-> 0, value |-> <<>>, collection |-> <<>>]
\* Ok(Some(Argument::Custom(Self::ident(value))))
CustomValue(ident, value) ==
    [tag |-> "Custom", ident |-> ident, fields |-> 1, value |-> value, collection |-> <<>>]
\* Ok(Some(Argument::Custom(Self::ident(collection)))), the collection of a last positional
CustomCollection(ident, collection) ==
    [tag |-> "Custom", ident |-> ident, fields |-> 1, value |-> <<>>, collection |-> collection]
\* Ok(()) of check_missing
OkUnit == [tag |-> "Ok"]
\* before the first call
NoResult == [tag |-> "NoResult"]

----------------------------------------------------------------------------
(* The tokenizer: lexopt::Parser, as the generated code uses it.           *)

\* lexopt's State
StateNone == [tag |-> "None", arg |-> <<>>, pos |-> 0]
\* `--long=value` was read and the value has not been taken
PendingValue(value) == [tag |-> "PendingValue", arg |-> value, pos |-> 0]
\* inside the short cluster arg, at the (0-based) byte pos
Shorts(arg, pos) == [tag |-> "Shorts", arg |-> arg, pos |-> pos]
\* `--` was read
FinishedOpts == [tag |-> "FinishedOpts", arg |-> <<>>, pos |-> 0]

\* lexopt's LastOption
LastNone == [tag |-> "None", text |-> <<>>]
LastShort(ch) == [tag |-> "Short", text |-> <<ch>>]
LastLong(option) == [tag |-> "Long", text |-> option]

\* Parser::from_iter: the first argument is the program name and is skipped
from_iter(args) == [source |-> Drop(args, 1), state |-> StateNone, last_option |-> LastNone]

\* Parser::format_last_option: `-c`, or the long option as it was typed
format_last_option(p) ==
    CASE p.last_option.tag = "None" -> None
      [] p.last_option.tag = "Short" -> Some(<<DASH>> \o p.last_option.text)
      [] p.last_option.tag = "Long" -> Some(p.last_option.text)

\* Parser::optional_value: the value attached to the option just read, if any
parser_optional_value(p) ==
    CASE p.state.tag = "PendingValue" ->
            [parser |-> [p EXCEPT !.state = StateNone], ret |-> Some(p.state.arg)]
      [] p.state.tag = "Shorts" ->
            IF p.state.pos >= Len(p.state.arg)
            THEN [parser |-> [p EXCEPT !.state = StateNone], ret |-> None]
            ELSE [parser |-> [p EXCEPT !.state = StateNone],
                  ret |-> Some(Drop(p.state.arg,
                                    IF p.state.arg[p.state.pos + 1] = EQ
                                    THEN p.state.pos + 1
                                    ELSE p.state.pos))]
      [] p.state.tag = "FinishedOpts" -> [parser |-> p, ret |-> None]
      [] p.state.tag = "None" -> [parser |-> p, ret |-> None]

\* Parser::value: the attached value, else the next token whatever it looks like.
\* `attached` is what optional_value gave.
value_or_next(attached) ==
    IF attached.ret # None
    THEN [parser |-> attached.parser, ret |-> [tag |-> "Ok", value |-> attached.ret[1]]]
    ELSE IF attached.parser.source # <<>>
    THEN [parser |-> [attached.parser EXCEPT !.source = Tail(attached.parser.source)],
          ret |-> [tag |-> "Ok", value |-> Head(attached.parser.source)]]
    ELSE [parser |-> attached.parser, ret |-> MissingValue(format_last_option(attached.parser))]

parser_value(p) == value_or_next(parser_optional_value(p))

\* Parser::raw_args: hands out the source itself (RawArgs), unless a value is
\* still attached to the option just read
raw_args_unless(attached) ==
    IF attached.ret # None
    THEN [parser |-> attached.parser,
          ret |-> UnexpectedValue(format_last_option(attached.parser)[1], attached.ret[1])]
    ELSE [parser |-> attached.parser, ret |-> [tag |-> "Ok"]]

parser_raw_args(p) == raw_args_unless(parser_optional_value(p))

\* Parser::next, on an argument that starts with `--` and is not `--`: a long
\* option, split at the first `=` (ind, 0 when there is none)
next_long(q, arg, ind) ==
    [parser |-> [q EXCEPT
        !.state = IF ind = 0 THEN StateNone ELSE PendingValue(Drop(arg, ind)),
        !.last_option = LastLong(IF ind = 0 THEN arg ELSE Take(arg, ind - 1))],
     ret |-> [tag |-> "Long",
              long |-> Drop(IF ind = 0 THEN arg ELSE Take(arg, ind - 1), 2)]]

\* Parser::next: the next Arg (Short, Long or Value), the end, or an error
RECURSIVE parser_next(_)
parser_next(p) ==
    CASE p.state.tag = "PendingValue" ->
            [parser |-> [p EXCEPT !.state = StateNone],
             ret |-> UnexpectedValue(format_last_option(p)[1], p.state.arg)]
      [] p.state.tag = "Shorts" /\ p.state.pos >= Len(p.state.arg) ->
            parser_next([p EXCEPT !.state = StateNone])
      [] p.state.tag = "Shorts" /\ p.state.pos < Len(p.state.arg) ->
            IF p.state.arg[p.state.pos + 1] = EQ /\ p.state.pos > 1
            THEN [parser |-> parser_optional_value(p).parser,
                  ret |-> UnexpectedValue(format_last_option(p)[1],
                                          parser_optional_value(p).ret[1])]
            ELSE [parser |-> [p EXCEPT !.state = Shorts(p.state.arg, p.state.pos + 1),
                                       !.last_option = LastShort(p.state.arg[p.state.pos + 1])],
                  ret |-> [tag |-> "Short", short |-> p.state.arg[p.state.pos + 1]]]
      [] p.state.tag = "FinishedOpts" /\ p.source = <<>> -> [parser |-> p, ret |-> OkNone]
      [] p.state.tag = "FinishedOpts" /\ p.source # <<>> ->
            [parser |-> [p EXCEPT !.source = Tail(p.source)],
             ret |-> [tag |-> "Value", value |-> Head(p.source)]]
      [] p.state.tag = "None" /\ p.source = <<>> -> [parser |-> p, ret |-> OkNone]
      [] p.state.tag = "None" /\ p.source # <<>> /\ Head(p.source) = <<DASH, DASH>> ->
            parser_next([p EXCEPT !.source = Tail(p.source), !.state = FinishedOpts])
      [] /\ p.state.tag = "None" /\ p.source # <<>> /\ Head(p.source) # <<DASH, DASH>>
         /\ starts_with(Head(p.source), <<DASH, DASH>>) ->
            next_long([p EXCEPT !.source = Tail(p.source)], Head(p.source),
                      position(Head(p.source), {EQ}))
      [] /\ p.state.tag = "None" /\ p.source # <<>>
         /\ ~starts_with(Head(p.source), <<DASH, DASH>>)
         /\ Len(Head(p.source)) > 1 /\ Head(p.source)[1] = DASH ->
            parser_next([p EXCEPT !.source = Tail(p.source), !.state = Shorts(Head(p.source), 1)])
      [] OTHER ->
            [parser |-> [p EXCEPT !.source = Tail(p.source)],
             ret |-> [tag |-> "Value", value |-> Head(p.source)]]

----------------------------------------------------------------------------
(* The declared model: the Argument list the derive macro reads            *)
(* (derive/src/argument.rs, parse_argument).                               *)

\* flags::Value: whether a spelling takes a value
ValueKinds == {"No", "Optional", "Required"}

\* One spelling of an option: `-p DIR` is Flag("p", "Required"),
\* `--tmpdir[=DIR]` is Flag(<<"t","m","p","d","i","r">>, "Optional").
Flag(flag, kind) == [flag |-> flag, value |-> kind]

\* The types of a variant's field that the model distinguishes: FieldNone is
\* a unit variant (Fields::Unit).
FieldNone == "unit"
FieldTypes == {"OsString", "String"}

\* Argument with ArgType::Option.  takes_value is field.is_some().
OptionArg(ident, short, long, field, default) ==
    [ident |-> ident, kind |-> "Option", short |-> short, long |-> long,
     field |-> field, takes_value |-> (field # FieldNone), default |-> default,
     num_args |-> [start |-> 0, end |-> 0], last |-> FALSE]

\* Argument with ArgType::Positional; its name is its ident.
PositionalArg(ident, field, start, end, last) ==
    [ident |-> ident, kind |-> "Positional", short |-> <<>>, long |-> <<>>,
     field |-> field, takes_value |-> TRUE, default |-> <<>>,
     num_args |-> [start |-> start, end |-> end], last |-> last]

\* The (value, takes_value) pairs for which short_handling and long_handling
\* do not panic while the macro runs.
FlagCompiles(arg, f) == arg.takes_value \/ f.value = "No"

----------------------------------------------------------------------------
(* Value conversion: FromValue::from_value (src/lib.rs).                   *)

\* OsString::into_string succeeds on valid Unicode only
into_string_ok(v) == BAD \notin Range(v)

\* The fixed-width integer types of from_value_int! that the model has
IntTypes == {"u8", "i8"}
is_signed_ty(ty) == ty = "i8"
IntMin(ty) == IF ty = "u8" THEN 0 ELSE -128
IntMax(ty) == IF ty = "u8" THEN 255 ELSE 127

\* The number n as a value a variant holds, as distinct from a text
Number(n) == <<"#", ToString(n)>>

\* char::to_digit(10): the digit a character stands for, 10 for any other
DigitChars == <<"0", "1", "2", "3", "4", "5", "6", "7", "8", "9">>
to_digit(ch) ==
    IF \E d \in 1..10 : DigitChars[d] = ch
    THEN (CHOOSE d \in 1..10 : DigitChars[d] = ch) - 1
    ELSE 10

\* The loop of from_str_radix over the digits from the i-th on: for each the
\* digit is read, the result so far is multiplied by ten and the digit is
\* added (or subtracted, for a literal with `-`), each step checked against
\* the range of the type
RECURSIVE parse_digits(_, _, _, _, _)
parse_digits(ty, digits, i, is_positive, acc) ==
    IF i > Len(digits) THEN [tag |-> "Ok", number |-> acc]
    ELSE IF to_digit(digits[i]) = 10 THEN [tag |-> "Err", kind |-> "InvalidDigit"]
    ELSE IF is_positive
    THEN (IF acc * 10 + to_digit(digits[i]) > IntMax(ty)
          THEN [tag |-> "Err", kind |-> "PosOverflow"]
          ELSE parse_digits(ty, digits, i + 1, is_positive, acc * 10 + to_digit(digits[i])))
    ELSE (IF acc * 10 - to_digit(digits[i]) < IntMin(ty)
          THEN [tag |-> "Err", kind |-> "NegOverflow"]
          ELSE parse_digits(ty, digits, i + 1, is_positive, acc * 10 - to_digit(digits[i])))

\* str::parse for an integer type: an empty text and a lone sign are no
\* numbers; `+` may lead any literal, `-` one of a signed type only
str_parse(ty, text) ==
    CASE text = <<>> -> [tag |-> "Err", kind |-> "Empty"]
      [] text \in {<<"+">>, <<DASH>>} -> [tag |-> "Err", kind |-> "InvalidDigit"]
      [] text # <<>> /\ text \notin {<<"+">>, <<DASH>>} /\ Head(text) = "+" ->
            parse_digits(ty, Tail(text), 1, TRUE, 0)
      [] text # <<>> /\ text \notin {<<"+">>, <<DASH>>} /\ Head(text) = DASH /\ is_signed_ty(ty) ->
            parse_digits(ty, Tail(text), 1, FALSE, 0)
      [] OTHER -> parse_digits(ty, text, 1, TRUE, 0)

\* value.parse().map_err(|e| Error::ParsingFailed { value, option, error })
parse_or_failed(option, v, parsed) ==
    IF parsed.tag = "Ok"
    THEN [tag |-> "Ok", value |-> Number(parsed.number)]
    ELSE ParsingFailed(option, v, parsed.kind)

\* A mutant of from_value_int: the text is parsed without the Unicode check
from_value_int_lossy(ty, option, v) == parse_or_failed(option, v, str_parse(ty, v))

\* A mutant of from_value_int: the text is not handed on by the error
from_value_int_without_value(ty, option, v) ==
    IF ~into_string_ok(v) THEN NonUnicodeValue(v)
    ELSE parse_or_failed(option, <<>>, str_parse(ty, v))

\* from_value_int!: String::from_value(option, value)?, then parse
from_value_int(ty, option, v) ==
    IF ~into_string_ok(v) THEN NonUnicodeValue(v)
    ELSE parse_or_failed(option, v, str_parse(ty, v))

\* The enumerated types with derived FromValue that the model has, and the
\* keys of each with the variant a key stands for, in declaration order
EnumTypes == {"Foo", "Time", "QuotingStyle"}
FooKeys ==
    <<[key |-> <<"l", "o", "n", "g">>, variant |-> "Long"],
      [key |-> <<"l", "i", "n", "k">>, variant |-> "Link"],
      [key |-> <<"d", "e", "c", "k">>, variant |-> "Deck"],
      [key |-> <<"d", "e", "s", "k">>, variant |-> "Desk"]>>
TimeKeys ==
    <<[key |-> <<"a", "c", "c", "e", "s", "s">>, variant |-> "Access"],
      [key |-> <<"a", "t", "i", "m", "e">>, variant |-> "Access"],
      [key |-> <<"u", "s", "e">>, variant |-> "Access"],
      [key |-> <<"c", "h", "a", "n", "g", "e">>, variant |-> "Change"],
      [key |-> <<"c", "t", "i", "m", "e">>, variant |-> "Change"],
      [key |-> <<"s", "t", "a", "t", "u", "s">>, variant |-> "Change"],
      [key |-> <<"b", "i", "r", "t", "h">>, variant |-> "Birth"],
      [key |-> <<"c", "r", "e", "a", "t", "i", "o", "n">>, variant |-> "Birth"]>>
QuotingStyleKeys ==
    <<[key |-> <<"l", "i", "t", "e", "r", "a", "l">>, variant |-> "Literal"],
      [key |-> <<"s", "h", "e", "l", "l">>, variant |-> "Shell"],
      [key |-> <<"s", "h", "e", "l", "l", DASH, "a", "l", "w", "a", "y", "s">>, variant |-> "ShellAlways"],
      [key |-> <<"s", "h", "e", "l", "l", DASH, "e", "s", "c", "a", "p", "e">>, variant |-> "ShellEscape"],
      [key |-> <<"s", "h", "e", "l", "l", DASH, "e", "s", "c", "a", "p", "e", DASH, "a", "l", "w", "a", "y", "s">>, variant |-> "ShellEscapeAlways"],
      [key |-> <<"c">>, variant |-> "C"],
      [key |-> <<"e", "s", "c", "a", "p", "e">>, variant |-> "Escape"]>>
value_keys(ty) ==
    CASE ty = "Foo" -> FooKeys
      [] ty = "Time" -> TimeKeys
      [] ty = "QuotingStyle" -> QuotingStyleKeys

\* A variant of an enumerated type, as a value a variant of the arguments holds
Variant(name) == <<"::", name>>

\* The scan of the keys from the i-th on: it ends at a key equal to the text;
\* every other key that starts with the text is a candidate
RECURSIVE scan_value_keys(_, _, _, _)
scan_value_keys(keys, v, i, candidates) ==
    IF i > Len(keys) THEN [exact_match |-> None, candidates |-> candidates]
    ELSE IF keys[i].key = v THEN [exact_match |-> Some(keys[i]), candidates |-> candidates]
    ELSE IF starts_with(keys[i].key, v)
    THEN scan_value_keys(keys, v, i + 1, Append(candidates, keys[i]))
    ELSE scan_value_keys(keys, v, i + 1, candidates)

\* The keys of the candidates
candidate_keys(candidates) == [i \in 1..Len(candidates) |-> candidates[i].key]

\* A mutant of match_value_scan: one candidate key is asked for, as one
\* candidate spelling is for a long option
match_value_scan_one_key(scan, option, v) ==
    CASE scan.exact_match # None -> [tag |-> "Ok", value |-> Variant(scan.exact_match[1].variant)]
      [] scan.exact_match = None /\ scan.candidates = <<>> ->
            ParsingFailed(option, v, "InvalidValue")
      [] scan.exact_match = None /\ Len(scan.candidates) = 1 ->
            [tag |-> "Ok", value |-> Variant(scan.candidates[1].variant)]
      [] OTHER -> AmbiguousValue(option, v, candidate_keys(scan.candidates))

\* The variant the text stands for: that of the key equal to it; else that of
\* the candidates, when they are keys of one variant; else the error
match_value_scan(scan, option, v) ==
    CASE scan.exact_match # None -> [tag |-> "Ok", value |-> Variant(scan.exact_match[1].variant)]
      [] scan.exact_match = None /\ scan.candidates = <<>> ->
            ParsingFailed(option, v, "InvalidValue")
      [] scan.exact_match = None /\ scan.candidates # <<>>
           /\ (\A i \in 1..Len(scan.candidates) :
                  scan.candidates[i].variant = scan.candidates[1].variant) ->
            [tag |-> "Ok", value |-> Variant(scan.candidates[1].variant)]
      [] OTHER -> AmbiguousValue(option, v, candidate_keys(scan.candidates))

\* The derived FromValue of an enumerated type: String::from_value, then the
\* resolution of the text against the keys
from_value_enum(ty, option, v) ==
    IF ~into_string_ok(v) THEN NonUnicodeValue(v)
    ELSE match_value_scan(scan_value_keys(value_keys(ty), v, 1, <<>>), option, v)

\* from_value for the field type ty: OsString is taken as it is, String must be
\* valid Unicode.  The option label is not used by these two.
from_value(ty, option, v) ==
    CASE ty = "OsString" -> [tag |-> "Ok", value |-> v]
      [] ty = "String" ->
            IF into_string_ok(v) THEN [tag |-> "Ok", value |-> v] ELSE NonUnicodeValue(v)
      [] ty \in IntTypes -> from_value_int(ty, option, v)
      [] ty \in EnumTypes -> from_value_enum(ty, option, v)

----------------------------------------------------------------------------
(* The generated value expressions (derive/src/argument.rs, 308-344).      *)
(* Each takes the parser p and gives the parser after it and what the      *)
(* expression evaluates to: Custom.. or, through `?`, an error.            *)

\* A mutant of no_value_expression: what is attached to the option is taken
\* and dropped
no_value_expression_takes_attached(arg, p) ==
    [parser |-> parser_optional_value(p).parser, ret |-> Custom(arg.ident)]

\* Self::ident
no_value_expression(arg, p) == [parser |-> p, ret |-> Custom(arg.ident)]

\* Self::ident(default)
default_value_expression(arg, p) == [parser |-> p, ret |-> CustomValue(arg.ident, arg.default)]

\* `?` on a conversion: the error, or the variant holding the converted value
bind(arg, converted) ==
    IF IsErr(converted) THEN converted ELSE CustomValue(arg.ident, converted.value)

\* A mutant of optional_value_match: an empty attached value is taken for none
optional_value_match_nonempty(arg, option, attached) ==
    IF attached.ret # None /\ attached.ret # Some(<<>>)
    THEN [parser |-> attached.parser,
          ret |-> bind(arg, from_value(arg.field, option, attached.ret[1]))]
    ELSE [parser |-> attached.parser, ret |-> CustomValue(arg.ident, arg.default)]

\* match parser.optional_value() { Some(value) => from_value(&option, value)?, None => default }
\* `attached` is what optional_value gave.
optional_value_match(arg, option, attached) ==
    IF attached.ret # None
    THEN [parser |-> attached.parser,
          ret |-> bind(arg, from_value(arg.field, option, attached.ret[1]))]
    ELSE [parser |-> attached.parser, ret |-> CustomValue(arg.ident, arg.default)]

\* A mutant of optional_value_expression: parser.value() for optional_value(),
\* the default when there is nothing to take
optional_value_or_default(arg, option, taken) ==
    IF IsErr(taken.ret)
    THEN [parser |-> taken.parser, ret |-> CustomValue(arg.ident, arg.default)]
    ELSE [parser |-> taken.parser,
          ret |-> bind(arg, from_value(arg.field, option, taken.ret.value))]

optional_value_expression_takes_next(arg, option, p) ==
    optional_value_or_default(arg, option, parser_value(p))

optional_value_expression(arg, option, p) ==
    optional_value_match(arg, option, parser_optional_value(p))

\* Self::ident(from_value(&option, parser.value()?)?): `taken` is what value() gave
required_value_bind(arg, option, taken) ==
    IF IsErr(taken.ret)
    THEN [parser |-> taken.parser, ret |-> taken.ret]
    ELSE [parser |-> taken.parser,
          ret |-> bind(arg, from_value(arg.field, option, taken.ret.value))]

\* A mutant of required_value_expression: only an attached value is taken
attached_or_missing(attached) ==
    IF attached.ret # None
    THEN [parser |-> attached.parser, ret |-> [tag |-> "Ok", value |-> attached.ret[1]]]
    ELSE [parser |-> attached.parser, ret |-> MissingValue(format_last_option(attached.parser))]

required_value_expression_attached_only(arg, option, p) ==
    required_value_bind(arg, option, attached_or_missing(parser_optional_value(p)))

required_value_expression(arg, option, p) == required_value_bind(arg, option, parser_value(p))

\* Self::ident(from_value("", value)?)
positional_expression(arg, v, p) ==
    [parser |-> p, ret |-> bind(arg, from_value(arg.field, <<>>, v))]

\* once(value).chain(raw_args).map(from_value).collect::<Result<_, _>>()?:
\* the tokens `all` are converted one by one, those after the value being
\* taken from the source, up to the first that fails to convert.
collect(arg, q, all, failed) ==
    IF failed = {}
    THEN [parser |-> [q EXCEPT !.source = <<>>],
          ret |-> CustomCollection(arg.ident,
                    [i \in 1..Len(all) |-> from_value(arg.field, <<>>, all[i]).value])]
    ELSE [parser |-> [q EXCEPT !.source =
                        Drop(q.source, (CHOOSE i \in failed : \A j \in failed : i <= j) - 1)],
          ret |-> from_value(arg.field, <<>>,
                             all[CHOOSE i \in failed : \A j \in failed : i <= j])]

collect_raw_args(arg, v, raw) ==
    IF IsErr(raw.ret)
    THEN [parser |-> raw.parser, ret |-> raw.ret]
    ELSE collect(arg, raw.parser, <<v>> \o raw.parser.source,
                 {i \in 1..(1 + Len(raw.parser.source)) :
                    IsErr(from_value(arg.field, <<>>, (<<v>> \o raw.parser.source)[i]))})

\* A mutant of last_positional_expression: the value alone is collected
last_positional_expression_value_only(arg, v, p) ==
    collect(arg, [p EXCEPT !.source = <<>>], <<v>>,
            {i \in 1..1 : IsErr(from_value(arg.field, <<>>, v))})

last_positional_expression(arg, v, p) == collect_raw_args(arg, v, parser_raw_args(p))

\* A mutant of flag_expression: a flag without a value gives the bare variant
\* also when the variant has a field
flag_expression_no_default(arg, f, option, p) ==
    CASE f.value = "No" -> no_value_expression(arg, p)
      [] f.value = "Optional" /\ arg.takes_value -> optional_value_expression(arg, option, p)
      [] f.value = "Required" /\ arg.takes_value -> required_value_expression(arg, option, p)

\* The expression of one match arm, chosen by (flag.value, takes_value)
\* (lines 138-146 and 183-191).
flag_expression(arg, f, option, p) ==
    CASE f.value = "No" /\ ~arg.takes_value -> no_value_expression(arg, p)
      [] f.value = "No" /\ arg.takes_value -> default_value_expression(arg, p)
      [] f.value = "Optional" /\ arg.takes_value -> optional_value_expression(arg, option, p)
      [] f.value = "Required" /\ arg.takes_value -> required_value_expression(arg, option, p)

\* The expression of the arm a match chose
arm_expression(arm, option, p) == flag_expression(arm.arg, arm.flag, option, p)

\* The index of the first TRUE of a sequence of booleans, 0 if there is none:
\* a match takes the first arm whose pattern matches
FirstTrue(bs) ==
    IF \E i \in 1..Len(bs) : bs[i]
    THEN CHOOSE i \in 1..Len(bs) : bs[i] /\ \A j \in 1..(i - 1) : ~bs[j]
    ELSE 0

\* The match arms a list of flags of one argument gives, in order
ArmsOf(arg, flags) == [j \in 1..Len(flags) |-> [arg |-> arg, flag |-> flags[j]]]

----------------------------------------------------------------------------
(* short_handling (derive/src/argument.rs, 118-158).                       *)

\* match_arms: one arm per short spelling, in declaration order
RECURSIVE short_arms(_)
short_arms(args) ==
    IF args = <<>> THEN <<>>
    ELSE (IF Head(args).kind = "Option" THEN ArmsOf(Head(args), Head(args).short) ELSE <<>>)
         \o short_arms(Tail(args))

\* match short { arms, _ => return Err(arg.unexpected().into()) }: i is the
\* first arm whose pattern is `short`, 0 when there is none
match_short(arms, i, short, p) ==
    IF i = 0
    THEN [parser |-> p, ret |-> UnexpectedOption(<<DASH, short>>)]
    ELSE arm_expression(arms[i], <<DASH, short>>, p)

\* let option = format!("-{}", short); match short { .. }
short_handling(args, short, p) ==
    match_short(short_arms(args),
                FirstTrue([k \in 1..Len(short_arms(args)) |->
                             short_arms(args)[k].flag.flag = short]),
                short, p)

----------------------------------------------------------------------------
(* long_handling (derive/src/argument.rs, 160-244).                        *)

\* match_arms: one arm per long spelling, in declaration order
RECURSIVE long_arms(_)
long_arms(args) ==
    IF args = <<>> THEN <<>>
    ELSE (IF Head(args).kind = "Option" THEN ArmsOf(Head(args), Head(args).long) ELSE <<>>)
         \o long_arms(Tail(args))

\* The patterns of the arms: the spellings, in the order of the arms
arm_patterns(arms) == [i \in 1..Len(arms) |-> arms[i].flag.flag]

\* A mutant of long_options: the help spellings are left out of the pool
long_options_without_help(help, args) == arm_patterns(long_arms(args))

\* options: the help spellings, then every long spelling in declaration order
long_options(help, args) == help \o arm_patterns(long_arms(args))

\* A mutant of scan_long_options: no test for an exact match
RECURSIVE scan_long_options_no_exact(_, _, _, _)
scan_long_options_no_exact(opts, long, i, candidates) ==
    IF i > Len(opts)
    THEN [exact_match |-> None, candidates |-> candidates]
    ELSE IF starts_with(opts[i], long)
    THEN scan_long_options_no_exact(opts, long, i + 1, Append(candidates, opts[i]))
    ELSE scan_long_options_no_exact(opts, long, i + 1, candidates)

\* A mutant of scan_long_options: `long.starts_with(opt)`, the operands swapped
RECURSIVE scan_long_options_swapped(_, _, _, _)
scan_long_options_swapped(opts, long, i, candidates) ==
    IF i > Len(opts)
    THEN [exact_match |-> None, candidates |-> candidates]
    ELSE IF opts[i] = long
    THEN [exact_match |-> Some(opts[i]), candidates |-> candidates]
    ELSE IF starts_with(long, opts[i])
    THEN scan_long_options_swapped(opts, long, i + 1, Append(candidates, opts[i]))
    ELSE scan_long_options_swapped(opts, long, i + 1, candidates)

\* A mutant of scan_long_options: `candidates.insert(0, opt)` for push
RECURSIVE scan_long_options_insert_front(_, _, _, _)
scan_long_options_insert_front(opts, long, i, candidates) ==
    IF i > Len(opts)
    THEN [exact_match |-> None, candidates |-> candidates]
    ELSE IF opts[i] = long
    THEN [exact_match |-> Some(opts[i]), candidates |-> candidates]
    ELSE IF starts_with(opts[i], long)
    THEN scan_long_options_insert_front(opts, long, i + 1, <<opts[i]>> \o candidates)
    ELSE scan_long_options_insert_front(opts, long, i + 1, candidates)

\* A mutant of scan_long_options: `opt.ends_with(long)` for starts_with
RECURSIVE scan_long_options_ends_with(_, _, _, _)
scan_long_options_ends_with(opts, long, i, candidates) ==
    IF i > Len(opts)
    THEN [exact_match |-> None, candidates |-> candidates]
    ELSE IF opts[i] = long
    THEN [exact_match |-> Some(opts[i]), candidates |-> candidates]
    ELSE IF Len(long) <= Len(opts[i]) /\ Drop(opts[i], Len(opts[i]) - Len(long)) = long
    THEN scan_long_options_ends_with(opts, long, i + 1, Append(candidates, opts[i]))
    ELSE scan_long_options_ends_with(opts, long, i + 1, candidates)

\* The scan `for opt in long_options` from the i-th option on, with the
\* candidates pushed so far; it breaks at an exact match.
RECURSIVE scan_long_options(_, _, _, _)
scan_long_options(opts, long, i, candidates) ==
    IF i > Len(opts)
    THEN [exact_match |-> None, candidates |-> candidates]
    ELSE IF opts[i] = long
    THEN [exact_match |-> Some(opts[i]), candidates |-> candidates]
    ELSE IF starts_with(opts[i], long)
    THEN scan_long_options(opts, long, i + 1, Append(candidates, opts[i]))
    ELSE scan_long_options(opts, long, i + 1, candidates)

\* A mutant of match_scan: the first of several candidates is taken
match_scan_first_candidate(scan, long) ==
    CASE scan.exact_match # None -> [tag |-> "Ok", long |-> scan.exact_match[1]]
      [] scan.exact_match = None /\ Len(scan.candidates) >= 1 ->
            [tag |-> "Ok", long |-> scan.candidates[1]]
      [] OTHER -> UnexpectedOption(<<DASH, DASH>> \o long)

\* match (exact_match, &candidates[..]): the spelling the typed name stands
\* for, or the error
match_scan(scan, long) ==
    CASE scan.exact_match # None -> [tag |-> "Ok", long |-> scan.exact_match[1]]
      [] scan.exact_match = None /\ Len(scan.candidates) = 1 ->
            [tag |-> "Ok", long |-> scan.candidates[1]]
      [] scan.exact_match = None /\ Len(scan.candidates) = 0 ->
            UnexpectedOption(<<DASH, DASH>> \o long)
      [] OTHER -> AmbiguousOption(long, scan.candidates)

resolve_long(opts, long) == match_scan(scan_long_options(opts, long, 1, <<>>), long)

\* A mutant of match_long: the label is the name without its dashes
match_long_bare_label(help, arms, long, p) ==
    IF help # <<>> /\ long \in Range(help)
    THEN [parser |-> p, ret |-> Help]
    ELSE arm_expression(arms[FirstTrue([k \in 1..Len(arms) |-> arms[k].flag.flag = long])],
                        long, p)

\* help_check, then let option = format!("--{}", long); match long { arms }
match_long(help, arms, long, p) ==
    IF help # <<>> /\ long \in Range(help)
    THEN [parser |-> p, ret |-> Help]
    ELSE arm_expression(arms[FirstTrue([k \in 1..Len(arms) |-> arms[k].flag.flag = long])],
                        <<DASH, DASH>> \o long, p)

\* after the scan: `resolved` is the spelling, or the error that is returned
long_resolved(help, arms, resolved, p) ==
    IF IsErr(resolved)
    THEN [parser |-> p, ret |-> resolved]
    ELSE match_long(help, arms, resolved.long, p)

\* The generated body for Arg::Long(long)
long_handling(help, args, long, p) ==
    IF long_options(help, args) = <<>>
    THEN [parser |-> p, ret |-> UnexpectedOption(<<DASH, DASH>> \o long)]
    ELSE long_resolved(help, long_arms(args), resolve_long(long_options(help, args), long), p)

----------------------------------------------------------------------------
(* positional_handling (derive/src/argument.rs, 246-306).                  *)

\* The loop over the arguments from the i-th on: last_index and
\* minimum_needed so far, the match arms `0..=last_index => expr` and the
\* missing_argument_checks `if positional_idx < minimum_needed`.
RECURSIVE positional_loop(_, _, _, _, _, _)
positional_loop(args, i, last_index, minimum_needed, match_arms, checks) ==
    IF i > Len(args)
    THEN [minimum_needed |-> minimum_needed, match_arms |-> match_arms, checks |-> checks]
    ELSE IF args[i].kind # "Positional"
    THEN positional_loop(args, i + 1, last_index, minimum_needed, match_arms, checks)
    ELSE positional_loop(
            args, i + 1,
            wrapping_add(last_index, args[i].num_args.end),
            IF args[i].num_args.start > 0
            THEN wrapping_add(last_index, args[i].num_args.start)
            ELSE minimum_needed,
            Append(match_arms,
                   [last_index |-> wrapping_add(last_index, args[i].num_args.end),
                    arg |-> args[i]]),
            IF args[i].num_args.start > 0
            THEN Append(checks,
                        [minimum_needed |-> wrapping_add(last_index, args[i].num_args.start),
                         name |-> args[i].ident])
            ELSE checks)

positional_handling(args) == positional_loop(args, 1, 0, 0, <<>>, <<>>)

\* A mutant of match_positional_idx: `last` is not looked at
match_positional_idx_never_last(arms, i, v, p) ==
    IF i = 0 THEN [parser |-> p, ret |-> UnexpectedArgument(v)]
    ELSE positional_expression(arms[i].arg, v, p)

\* The expression of the arm that `match positional_idx` chose (the i-th, 0
\* when it is the `_` arm)
match_positional_idx(arms, i, v, p) ==
    IF i = 0 THEN [parser |-> p, ret |-> UnexpectedArgument(v)]
    ELSE IF arms[i].arg.last THEN last_positional_expression(arms[i].arg, v, p)
    ELSE positional_expression(arms[i].arg, v, p)

\* `new_idx` is positional_idx after `*positional_idx += 1`
value_routed(arms, new_idx, v, p) ==
    [routed |-> match_positional_idx(
                    arms, FirstTrue([k \in 1..Len(arms) |-> new_idx <= arms[k].last_index]),
                    v, p),
     positional_idx |-> new_idx]

\* A mutant of value_handling: without `*positional_idx += 1`
value_handling_no_increment(args, idx, v, p) ==
    value_routed(positional_handling(args).match_arms, idx, v, p)

\* value_handling: *positional_idx += 1; match positional_idx { 0..=last_index => expr, .. }
value_handling(args, idx, v, p) ==
    value_routed(positional_handling(args).match_arms, wrapping_add(idx, 1), v, p)

\* A mutant of push_missing: `positional_idx <= minimum_needed`
RECURSIVE push_missing_inclusive(_, _)
push_missing_inclusive(checks, idx) ==
    IF checks = <<>> THEN <<>>
    ELSE (IF idx <= Head(checks).minimum_needed THEN <<Head(checks).name>> ELSE <<>>)
         \o push_missing_inclusive(Tail(checks), idx)

\* The checks `if positional_idx < minimum_needed { missing.push(name) }`, run in order
RECURSIVE push_missing(_, _)
push_missing(checks, idx) ==
    IF checks = <<>> THEN <<>>
    ELSE (IF idx < Head(checks).minimum_needed THEN <<Head(checks).name>> ELSE <<>>)
         \o push_missing(Tail(checks), idx)

\* `missing` after the checks: an error if it is not empty
missing_result(missing) ==
    IF missing # <<>> THEN MissingPositionalArguments(missing) ELSE OkUnit

\* missing_argument_checks: the body of check_missing, `gen` being what
\* positional_handling generated
missing_argument_checks(gen, idx) ==
    IF idx >= gen.minimum_needed
    THEN OkUnit
    ELSE missing_result(push_missing(gen.checks, idx))

check_missing(args, idx) == missing_argument_checks(positional_handling(args), idx)

----------------------------------------------------------------------------
(* Arguments::next_arg as the derive macro puts it together: it takes the  *)
(* next Arg from the parser and runs the body generated for its kind.      *)

\* What a call gives: the parser and counter after it, the value returned,
\* and `arg`, what parser.next() gave (kept for the record of the call).
returned(body, idx, arg) ==
    [parser |-> body.parser, positional_idx |-> idx, ret |-> body.ret, arg |-> arg]

returned_value(body, arg) == returned(body.routed, body.positional_idx, arg)

\* match arg { Short(short) => .., Long(long) => .., Value(value) => .. },
\* `n` being what parser.next() gave; its error or None is returned as it is
match_arg(help, args, idx, n) ==
    CASE n.ret.tag \in {"Err", "End"} -> returned(n, idx, n.ret)
      [] n.ret.tag = "Short" ->
            returned(short_handling(args, n.ret.short, n.parser), idx, n.ret)
      [] n.ret.tag = "Long" ->
            returned(long_handling(help, args, n.ret.long, n.parser), idx, n.ret)
      [] n.ret.tag = "Value" ->
            returned_value(value_handling(args, idx, n.ret.value, n.parser), n.ret)

next_arg(help, args, p, idx) == match_arg(help, args, idx, parser_next(p))

----------------------------------------------------------------------------
(* The declared models and the inputs of the checked runs.                 *)

a == "a"
b == "b"
c == "c"
e == "e"
h == "h"
x == "x"
y == "y"
z == "z"

\* The program name, args[0]
BinName == <<"t">>

\* The ident of a variant: a name and a number
Ident(name, i) == <<name, i>>

\* Long spellings and typed long names
LongNames == {<<a>>, <<a, a>>, <<a, b>>, <<b>>, <<b, a>>, <<b, b>>}
TypedNames == LongNames \cup {<<>>, <<a, b, a>>}

\* A model whose long options take no value: `spellings` in declaration
\* order, the first n_help of them being help_flags.long.
UnitIdent(i) == Ident("U", i)
LongModel(spellings, n_help) ==
    [family |-> "long",
     help |-> Take(spellings, n_help),
     args |-> [i \in 1..(Len(spellings) - n_help) |->
                 OptionArg(UnitIdent(i), <<>>, <<Flag(spellings[n_help + i], "No")>>,
                           FieldNone, <<>>)]]

LongModels ==
    UNION {{LongModel(s, n) : n \in {k \in 0..1 : k <= Len(s)}} :
             s \in {t \in SeqsUpTo(LongNames, MaxLong) : NoDuplicates(t)}}

LongToken(name, attached) == <<DASH, DASH>> \o name \o attached
LongInputs == {<<LongToken(n, v)>> : n \in TypedNames, v \in {<<>>, <<EQ, x>>}}

\* The options of mktemp (tests/coreutils/mktemp.rs): `-a VAL`/`--aa[=VAL]`
\* like -p/--tmpdir, `--ba=VAL` like --suffix, `-c`/`--c` like -q/--quiet;
\* `-e`/`--e[=VAL]` like -F/--classify of ls (tests/options.rs), `-w[VAL]`
\* a short spelling with an optional value; a help flag `--h`.
TmpDir == OptionArg(Ident("TmpDir", 0), <<Flag(a, "Required")>>,
                    <<Flag(<<a, a>>, "Optional")>>, "OsString", <<"d">>)
Suffix == OptionArg(Ident("Suffix", 0), <<>>, <<Flag(<<b, a>>, "Required")>>, "String", <<>>)
Quiet == OptionArg(Ident("Quiet", 0), <<Flag(c, "No")>>, <<Flag(<<c>>, "No")>>, FieldNone, <<>>)
Classify == OptionArg(Ident("Classify", 0), <<Flag(e, "No")>>, <<Flag(<<e>>, "Optional")>>,
                      "String", <<"d">>)
Width == OptionArg(Ident("Width", 0), <<Flag("w", "Optional")>>, <<>>, "String", <<"n">>)
SlotIdent(i) == Ident("P", i)
Template == PositionalArg(SlotIdent(1), "String", 0, 1, FALSE)
Files == PositionalArg(SlotIdent(1), "OsString", 0, USIZE_MAX, TRUE)
\* a collect-remaining slot of Strings, which a non-Unicode token fails to convert to
Names == PositionalArg(SlotIdent(1), "String", 0, USIZE_MAX, TRUE)

ValueModels ==
    {[family |-> "value", help |-> <<>>, args |-> <<TmpDir, Suffix, Quiet, Template>>],
     [family |-> "classify", help |-> <<<<h>>>>, args |-> <<Classify, Width, Quiet, Files>>],
     [family |-> "collect", help |-> <<>>, args |-> <<Quiet, Names>>]}

ValueTokens ==
    {<<DASH, DASH, a, a>>, <<DASH, DASH, a, a, EQ>>, <<DASH, DASH, a, a, EQ, x>>,
     <<DASH, DASH, b, a>>, <<DASH, DASH, b, a, EQ>>, <<DASH, DASH, b, a, EQ, x>>,
     <<DASH, DASH, b>>, <<DASH, a>>, <<DASH, a, x>>, <<DASH, c, a>>, <<DASH, c>>,
     <<x>>, <<BAD>>, <<DASH, DASH>>, <<DASH, DASH, c, EQ, x>>}
ClassifyTokens ==
    {<<DASH, e>>, <<DASH, e, x>>, <<DASH, DASH, e>>, <<DASH, DASH, e, EQ, x>>,
     <<DASH, DASH, e, EQ>>, <<DASH, DASH, h>>, <<DASH, h>>, <<x>>, <<DASH, c>>,
     <<DASH, "w">>, <<DASH, "w", x>>}

CollectTokens == {<<x>>, <<BAD>>, <<DASH, c>>, <<DASH, DASH>>}

\* The arguments of b2sum (tests/coreutils/b2sum.rs): -b/--binary, -c/--check
\* and the positional FILE of any number of values, declared as a
\* collect-remaining slot or not
Binary == OptionArg(Ident("Binary", 0), <<Flag(b, "No")>>,
                    <<Flag(<<b, "i", "n", a, "r", y>>, "No")>>, FieldNone, <<>>)
Check == OptionArg(Ident("Check", 0), <<Flag(c, "No")>>,
                   <<Flag(<<c, h, e, c, "k">>, "No")>>, FieldNone, <<>>)
File(last) == PositionalArg(Ident("File", 0), "OsString", 0, USIZE_MAX, last)
B2sum(last) == [family |-> "b2sum", help |-> <<>>, args |-> <<Binary, Check, File(last)>>]
B2sumModels == {B2sum(last) : last \in BOOLEAN}
foo == <<"f", "o", "o">>
bar == <<b, a, "r">>
B2sumTokens == {<<DASH, b>>, <<DASH, c>>, <<DASH, b, c>>, foo, bar}

\* -b/--binary and -t/--text of b2sum, which write the same setting, and FILE
Text == OptionArg(Ident("Text", 0), <<Flag("t", "No")>>,
                  <<Flag(<<"t", e, x, "t">>, "No")>>, FieldNone, <<>>)
BinaryText == [family |-> "binary", help |-> <<>>, args |-> <<Binary, Text, File(FALSE)>>]
BinaryTextTokens == {<<DASH, b>>, <<DASH, "t">>, foo, bar}

\* Positional slots: every slot but the last has a bounded range, and only
\* the last may be the collect-remaining slot.
RangeOf(lo, hi) == [start |-> lo, end |-> hi]
InnerRanges == {RangeOf(0, 1), RangeOf(1, 1), RangeOf(1, 2)}
LastRanges == InnerRanges \cup {RangeOf(0, USIZE_MAX), RangeOf(2, USIZE_MAX)}

SlotModel(ranges, last) ==
    [family |-> "slots",
     help |-> <<>>,
     args |-> <<Quiet>> \o
              [i \in 1..Len(ranges) |->
                 PositionalArg(SlotIdent(i), "OsString", ranges[i].start, ranges[i].end,
                               last /\ i = Len(ranges))]]

SlotModels ==
    UNION {{SlotModel(r, l) : l \in {k \in BOOLEAN : k => r # <<>>}} :
             r \in {t \in SeqsUpTo(LastRanges, MaxSlots) :
                      \A i \in 1..(Len(t) - 1) : t[i] \in InnerRanges}}
SlotTokens == {<<x>>, <<y>>, <<DASH, c>>}

\* --u8=N and --i8=N of the test `integers` (tests/options.rs), --u8 with a
\* short spelling too, and the texts given to them
U8 == OptionArg(Ident("U8", 0), <<Flag("u", "Required")>>,
                <<Flag(<<"u", "8">>, "Required")>>, "u8", <<>>)
I8 == OptionArg(Ident("I8", 0), <<>>, <<Flag(<<"i", "8">>, "Required")>>, "i8", <<>>)
Integers == [family |-> "integers", help |-> <<>>, args |-> <<U8, I8>>]
IntTexts ==
    {<<"0">>, <<"5">>, <<"0", "0", "7">>, <<"+", "5">>, <<"1", "2", "7">>, <<"1", "2", "8">>,
     <<"2", "5", "5">>, <<"2", "5", "6">>, <<DASH, "0">>, <<DASH, "1">>,
     <<DASH, "1", "2", "8">>, <<DASH, "1", "2", "9">>, <<"+">>, <<DASH>>, <<>>, <<x>>,
     <<"1", x>>, <<BAD>>, <<"5", BAD>>}
IntegersTokens ==
    {<<DASH, DASH, "u", "8", EQ>> \o t : t \in IntTexts}
    \cup {<<DASH, DASH, "i", "8", EQ>> \o t : t \in IntTexts}
    \cup {<<DASH, DASH, "u", EQ>> \o t : t \in {<<"5">>, <<x>>}}
    \cup {<<DASH, DASH, "i", EQ>> \o t : t \in {<<"5">>, <<x>>}}
    \cup {<<DASH, "u">> \o t : t \in {<<"5">>, <<x>>, <<"2", "5", "6">>}}

\* Options whose values are of enumerated types: Foo of the test infer_value
\* (tests/options.rs), --time and --quoting-style of ls (tests/coreutils/ls.rs)
FooArg == OptionArg(Ident("Foo", 0), <<>>, <<Flag(<<"f", "o", "o">>, "Required")>>, "Foo", <<>>)
TimeArg == OptionArg(Ident("Time", 0), <<>>, <<Flag(<<"t", "i", "m", "e">>, "Required")>>, "Time", <<>>)
QuotingStyleArg ==
    OptionArg(Ident("QuotingStyle", 0), <<>>,
              <<Flag(<<"q", "u", "o", "t", "i", "n", "g", DASH, "s", "t", "y", "l", "e">>, "Required")>>, "QuotingStyle", <<>>)
Enums == [family |-> "enums", help |-> <<>>, args |-> <<FooArg, TimeArg, QuotingStyleArg>>]
EnumsTokens ==
    {<<DASH, DASH, "f", "o", "o", EQ, "l", "o">>,
     <<DASH, DASH, "f", "o", "o", EQ, "d", "e", "c">>,
     <<DASH, DASH, "f", "o", "o", EQ, "l">>,
     <<DASH, DASH, "f", "o", "o", EQ, "d", "e">>,
     <<DASH, DASH, "f", "o", "o", EQ, "l", "o", "n", "g">>,
     <<DASH, DASH, "f", "o", "o", EQ, "l", "o", "n">>,
     <<DASH, DASH, "f", "o", "o", EQ, "x">>,
     <<DASH, DASH, "f", "o", "o", EQ>>,
     <<DASH, DASH, "f", "o", "o", EQ, BAD>>,
     <<DASH, DASH, "t", "i", "m", "e", EQ, "a">>,
     <<DASH, DASH, "t", "i", "m", "e", EQ, "a", "c", "c", "e", "s", "s">>,
     <<DASH, DASH, "t", "i", "m", "e", EQ, "a", "t">>,
     <<DASH, DASH, "t", "i", "m", "e", EQ, "c">>,
     <<DASH, DASH, "t", "i", "m", "e", EQ, "c", "h">>,
     <<DASH, DASH, "t", "i", "m", "e", EQ, "u">>,
     <<DASH, DASH, "t", "i", "m", "e", EQ, "b">>,
     <<DASH, DASH, "t", "i", "m", "e", EQ, "s">>,
     <<DASH, DASH, "q", "u", "o", "t", "i", "n", "g", DASH, "s", "t", "y", "l", "e", EQ, "s", "h", "e", "l", "l">>,
     <<DASH, DASH, "q", "u", "o", "t", "i", "n", "g", DASH, "s", "t", "y", "l", "e", EQ, "s", "h", "e", "l", "l", DASH>>,
     <<DASH, DASH, "q", "u", "o", "t", "i", "n", "g", DASH, "s", "t", "y", "l", "e", EQ, "s", "h", "e", "l", "l", DASH, "e">>,
     <<DASH, DASH, "q", "u", "o", "t", "i", "n", "g", DASH, "s", "t", "y", "l", "e", EQ, "s", "h", "e", "l", "l", DASH, "a">>,
     <<DASH, DASH, "q", "u", "o", "t", "i", "n", "g", DASH, "s", "t", "y", "l", "e", EQ, "s">>,
     <<DASH, DASH, "q", "u", "o", "t", "i", "n", "g", DASH, "s", "t", "y", "l", "e", EQ, "c">>,
     <<DASH, DASH, "q", "u", "o", "t", "i", "n", "g", DASH, "s", "t", "y", "l", "e", EQ, "e">>}

\* A declaration with the help spelling --h, the version spelling --v and the
\* flag -c/--c; long_handling is handed the help spellings only
version_flags == <<<<"v">>>>
Versioned == [family |-> "version", help |-> <<<<h>>>>, args |-> <<Quiet>>]
VersionedTokens == {<<DASH, DASH, "v">>, <<DASH, DASH, h>>, <<DASH, DASH, c>>}

\* Declarations the macro panics on: a unit variant with a spelling that
\* declares a value, `--c=VAL` or `-c[VAL]`
QuietRequired == OptionArg(Ident("Quiet", 0), <<>>, <<Flag(<<c>>, "Required")>>, FieldNone, <<>>)
QuietOptional == OptionArg(Ident("Quiet", 0), <<Flag(c, "Optional")>>, <<>>, FieldNone, <<>>)
PanicModels ==
    {[family |-> "collect", help |-> <<>>, args |-> <<QuietRequired, Names>>],
     [family |-> "collect", help |-> <<>>, args |-> <<QuietOptional, Names>>]}

Models ==
    LongModels \cup ValueModels \cup SlotModels \cup B2sumModels
    \cup {BinaryText, Integers, Enums, Versioned} \cup PanicModels

\* short_handling and long_handling run without a panic: the derive gives a
\* parser for the declaration
Compiles(args) ==
    /\ \A k \in 1..Len(short_arms(args)) :
          FlagCompiles(short_arms(args)[k].arg, short_arms(args)[k].flag)
    /\ \A k \in 1..Len(long_arms(args)) :
          FlagCompiles(long_arms(args)[k].arg, long_arms(args)[k].flag)

Inputs(m) ==
    CASE m.family = "long" -> LongInputs
      [] m.family = "value" -> SeqsUpTo(ValueTokens, MaxArgs)
      [] m.family = "classify" -> SeqsUpTo(ClassifyTokens, MaxArgs)
      [] m.family = "collect" -> SeqsUpTo(CollectTokens, MaxArgs)
      [] m.family = "b2sum" -> SeqsUpTo(B2sumTokens, MaxArgs)
      [] m.family = "binary" -> SeqsUpTo(BinaryTextTokens, MaxArgs)
      [] m.family = "integers" -> {<<t>> : t \in IntegersTokens}
      [] m.family = "enums" -> {<<t>> : t \in EnumsTokens}
      [] m.family = "version" -> SeqsUpTo(VersionedTokens, MaxArgs)
      [] m.family = "slots" -> SeqsUpTo(SlotTokens, MaxArgs)

----------------------------------------------------------------------------
(* Options: the settings a parse gives (src/lib.rs, Options; the Settings  *)
(* of tests/coreutils/b2sum.rs).                                           *)

\* Settings::default()
DefaultSettings == [binary |-> FALSE, files |-> <<>>]

\* Options::apply of b2sum's Settings
apply(settings, arg) ==
    CASE arg.ident = Binary.ident -> [settings EXCEPT !.binary = TRUE]
      [] arg.ident = Text.ident -> [settings EXCEPT !.binary = FALSE]
      [] arg.ident = File(FALSE).ident ->
            [settings EXCEPT !.files = Append(settings.files, arg.value)]
      [] OTHER -> settings

\* Options::apply_args: every argument next_arg yields is applied, in the
\* order it is yielded, up to the first error; n of the results are left
RECURSIVE apply_args(_, _, _)
apply_args(settings, results, n) ==
    IF n = 0 THEN [tag |-> "Ok", settings |-> settings]
    ELSE IF IsErr(results[Len(results) - n + 1]) THEN results[Len(results) - n + 1]
    ELSE apply_args(IF results[Len(results) - n + 1].tag = "Custom"
                    THEN apply(settings, results[Len(results) - n + 1])
                    ELSE settings,
                    results, n - 1)

\* A mutant of parse: Ok(Self::default()) for Ok(_self)
parse_returns_default(results) ==
    IF IsErr(apply_args(DefaultSettings, results, Len(results)))
    THEN apply_args(DefaultSettings, results, Len(results))
    ELSE [tag |-> "Ok", settings |-> DefaultSettings]

\* Options::parse: the settings that start from the default and have the
\* arguments applied, or the error
parse(results) == apply_args(DefaultSettings, results, Len(results))

----------------------------------------------------------------------------
(* The derive's reading of #[positional(..)]: attributes.rs.  It runs when *)
(* the declaration is compiled, in the build the derive crate was given.   *)

\* The attribute as written: no arguments, one integer literal, or a range
\* whose bounds are literals or left out
AttrLits == {0, 1, 2, USIZE_MAX}
OptLits == {None} \cup {Some(n) : n \in AttrLits}
AttrNone == [tag |-> "None"]
AttrInt(n) == [tag |-> "Int", n |-> n]
AttrRange(from, to, inclusive) ==
    [tag |-> "Range", from |-> from, to |-> to, inclusive |-> inclusive]
Attributes ==
    {AttrNone}
    \cup {AttrInt(n) : n \in AttrLits}
    \cup {AttrRange(f, t, FALSE) : f \in OptLits, t \in OptLits}
    \cup {AttrRange(f, Some(n), TRUE) : f \in OptLits, n \in AttrLits}

\* What the derive gives: a PositionalAttr, or a panic that ends the build
ParsedAttr(num_args) == [tag |-> "Ok", num_args |-> num_args]
PanicAttr == [tag |-> "Panic"]
NotParsed == [tag |-> "NotParsed"]
NoAttribute == [tag |-> "NoAttribute"]

\* PositionalAttr::default(): num_args: 1..=1
PositionalAttr_default == ParsedAttr(RangeOf(1, 1))

\* The lower bound of a range: the literal, or 0 when left out
range_from(attr) == IF attr.from = None THEN 0 ELSE attr.from[1]

\* A mutant of range_to: the upper bound of a..b is kept as b
range_to_keeps_bound(attr, checks) ==
    IF attr.to = None THEN ParsedAttr(RangeOf(range_from(attr), USIZE_MAX))
    ELSE ParsedAttr(RangeOf(range_from(attr), attr.to[1]))

\* The upper bound of a range and the range made of it: `Some(n)` if
\* inclusive, else `Some(n - 1)`, a usize subtraction that panics on
\* underflow with overflow checks and wraps without; usize::MAX when left out
range_to(attr, checks) ==
    IF attr.to = None THEN ParsedAttr(RangeOf(range_from(attr), USIZE_MAX))
    ELSE IF attr.inclusive THEN ParsedAttr(RangeOf(range_from(attr), attr.to[1]))
    ELSE IF attr.to[1] < 1 /\ checks THEN PanicAttr
    ELSE ParsedAttr(RangeOf(range_from(attr), (attr.to[1] - 1) % (2^UsizeBits)))

\* PositionalAttrArg::parse
PositionalAttrArg_parse(attr, checks) ==
    IF attr.tag = "Range" THEN range_to(attr, checks)
    ELSE ParsedAttr(RangeOf(attr.n, attr.n))

\* parse_positional_attr: the default, replaced by each NumArgs argument
parse_positional_attr(attr, checks) ==
    IF attr.tag = "None" THEN PositionalAttr_default
    ELSE PositionalAttrArg_parse(attr, checks)

\* At run time the derive has expanded already: nothing of it is left to run
Derived ==
    /\ attribute = NoAttribute
    /\ overflow_checks = FALSE
    /\ positional_attr = NotParsed

----------------------------------------------------------------------------
(* The state machine: a cursor (ArgumentIter) and its caller.              *)

\* The record of a call: the cursor before it and what parser.next() gave
Called(op, p, idx, arg) == [op |-> op, parser |-> p, positional_idx |-> idx, arg |-> arg]
NoCall == Called("none", from_iter(<<>>), 0, NoResult)

\* Arguments::parse(args): ArgumentIter::from_args
Init ==
    \E m \in {dm \in Models : Compiles(dm.args)} :
        \E tokens \in Inputs(m) :
            /\ help_flags = m.help
            /\ arguments = m.args
            /\ parser = from_iter(<<BinName>> \o tokens)
            /\ positional_idx = 0
            /\ call = NoCall
            /\ result = NoResult
            /\ input = tokens
            /\ events = <<>>
            /\ Derived

\* A mutant of Returns: next_arg is handed a clone of the parser, which the
\* cursor does not keep
Returns_parser_clone(r) ==
    /\ parser' = parser
    /\ positional_idx' = r.positional_idx
    /\ result' = r.ret
    /\ call' = Called("next_arg", parser, positional_idx, r.arg)
    /\ events' = IF r.ret = OkNone THEN events ELSE Append(events, r.ret)

\* The cursor after a call that gave r
Returns(r) ==
    /\ parser' = r.parser
    /\ positional_idx' = r.positional_idx
    /\ result' = r.ret
    /\ call' = Called("next_arg", parser, positional_idx, r.arg)
    /\ events' = IF r.ret = OkNone THEN events ELSE Append(events, r.ret)

\* ArgumentIter::next_arg
NextArg ==
    /\ Returns(next_arg(help_flags, arguments, parser, positional_idx))
    /\ UNCHANGED <<help_flags, arguments, input>>
    /\ UNCHANGED <<attribute, overflow_checks, positional_attr>>

\* Arguments::check_missing(positional_idx), called once next_arg gave Ok(None)
CheckMissing ==
    /\ call.op = "next_arg"
    /\ result = OkNone
    /\ result' = check_missing(arguments, positional_idx)
    /\ call' = Called("check_missing", parser, positional_idx, NoResult)
    /\ UNCHANGED <<help_flags, arguments, parser, positional_idx, input, events>>
    /\ UNCHANGED <<attribute, overflow_checks, positional_attr>>

Next == NextArg \/ CheckMissing

Spec == Init /\ [][Next]_vars

\* The parses whose termination is checked: b2sum, with a cluster and its
\* FILE slot, and the flags with values, each on a few tokens
LiveTokens(m) ==
    IF m.family = "value"
    THEN {<<DASH, a>>, <<x>>, <<DASH, c>>}
    ELSE {<<DASH, b, c>>, <<DASH, c>>, foo}
LiveInit ==
    \E m \in B2sumModels \cup {vm \in ValueModels : vm.family = "value"} :
        \E tokens \in SeqsUpTo(LiveTokens(m), MaxArgs) :
            /\ help_flags = m.help
            /\ arguments = m.args
            /\ parser = from_iter(<<BinName>> \o tokens)
            /\ positional_idx = 0
            /\ call = NoCall
            /\ result = NoResult
            /\ input = tokens
            /\ events = <<>>
            /\ Derived

\* The caller keeps calling next_arg: Options::apply_args loops until it gets
\* Ok(None) or an error, and next_arg always returns
LiveSpec == LiveInit /\ [][Next]_vars /\ WF_vars(NextArg)

\* The derive alone: it is given an attribute, in either build
AttrInit ==
    \E attr \in Attributes :
        \E checks \in BOOLEAN :
            /\ help_flags = <<>>
            /\ arguments = <<>>
            /\ parser = from_iter(<<>>)
            /\ positional_idx = 0
            /\ call = NoCall
            /\ result = NoResult
            /\ input = <<>>
            /\ events = <<>>
            /\ attribute = attr
            /\ overflow_checks = checks
            /\ positional_attr = NotParsed

\* parse_positional_attr(attr), once per attribute
ParsePositionalAttr ==
    /\ attribute # NoAttribute
    /\ positional_attr = NotParsed
    /\ positional_attr' = parse_positional_attr(attribute, overflow_checks)
    /\ UNCHANGED <<help_flags, arguments, parser, positional_idx, call, result, input,
                   events, attribute, overflow_checks>>

AttrNext == ParsePositionalAttr

AttrSpec == AttrInit /\ [][AttrNext]_vars

----------------------------------------------------------------------------
(* What the properties below speak of: the last call and the declared      *)
(* model, read off the state.                                              *)

\* p is a prefix of s
IsPrefix(p, s) == Len(p) <= Len(s) /\ \A i \in 1..Len(p) : s[i] = p[i]

\* The declared options, and the long spellings S: help spellings included
Options == {arguments[i] : i \in {k \in 1..Len(arguments) : arguments[k].kind = "Option"}}
DeclaredLong == Range(help_flags) \cup {f.flag : f \in UNION {Range(o.long) : o \in Options}}
DeclaredShort == {f.flag : f \in UNION {Range(o.short) : o \in Options}}

\* The members of S that start with p
Starting(p) == {s \in DeclaredLong : IsPrefix(p, s)}

\* The last call was next_arg and the tokenizer gave it a long name, a short
\* character, a bare value
LongCall == call.op = "next_arg" /\ call.arg.tag = "Long"
ShortCall == call.op = "next_arg" /\ call.arg.tag = "Short"
ValueCall == call.op = "next_arg" /\ call.arg.tag = "Value"

\* The parser as the tokenizer left it when it handed the Arg to the call
AfterToken == parser_next(call.parser).parser

\* The option that declares the long spelling s (not a help spelling), and
\* the spelling's flag
LongOwner(s) == CHOOSE o \in Options : \E f \in Range(o.long) : f.flag = s
LongFlag(s) == CHOOSE f \in Range(LongOwner(s).long) : f.flag = s
ShortOwner(ch) == CHOOSE o \in Options : \E f \in Range(o.short) : f.flag = ch
ShortFlag(ch) == CHOOSE f \in Range(ShortOwner(ch).short) : f.flag = ch

\* The call took the typed long name for the spelling s: it gave Help for a
\* help spelling, and else what the expression of the flag spelled s gives
ResolvedTo(s) ==
    IF s \in Range(help_flags)
    THEN result = Help
    ELSE result = flag_expression(LongOwner(s), LongFlag(s), <<DASH, DASH>> \o s, AfterToken).ret

\* C1: when the typed long name equals a declared spelling, the call resolves
\* to that spelling, whatever other spellings have the typed name as a prefix
\* and wherever the spelling stands in the declaration order.
C1_ExactMatchWins ==
    (LongCall /\ call.arg.long \in DeclaredLong) => ResolvedTo(call.arg.long)

\* C1 witness: a name typed exactly, declared after a spelling it is a proper
\* prefix of and before another one, was resolved to its own variant.
C1_Witness ==
    /\ LongCall
    /\ call.arg.long = <<a>>
    /\ long_options(help_flags, arguments) = <<<<a, b>>, <<a>>, <<a, a>>>>
    /\ result = Custom(LongOwner(<<a>>).ident)

\* C2: when exactly one declared spelling (help spellings included) starts
\* with the typed name, the call resolves to that spelling; the statement
\* reads the declared spellings as a set, so it is the same for every
\* declaration order.
C2_UniquePrefix ==
    (LongCall /\ Cardinality(Starting(call.arg.long)) = 1)
        => \A s \in Starting(call.arg.long) : ResolvedTo(s)

\* C2 witness: an abbreviation of the last of three declared spellings was
\* resolved to it.
C2_Witness ==
    /\ LongCall
    /\ call.arg.long = <<b>>
    /\ long_options(help_flags, arguments) = <<<<a, b>>, <<a>>, <<b, a>>>>
    /\ result = Custom(LongOwner(<<b, a>>).ident)

\* C3: when two or more declared spellings start with the typed name and
\* none equals it, the call fails with AmbiguousOption, whose option is the
\* typed name without dashes and whose candidates are, as a set, exactly the
\* spellings that start with the typed name.
C3_Ambiguous ==
    (/\ LongCall
     /\ Cardinality(Starting(call.arg.long)) >= 2
     /\ call.arg.long \notin DeclaredLong)
        => /\ IsErr(result)
           /\ result.error = "AmbiguousOption"
           /\ result.option = Some(call.arg.long)
           /\ Range(result.list) = Starting(call.arg.long)
           /\ Len(result.list) = Cardinality(Starting(call.arg.long))

\* C3 witness: `--a` against aa, b and ab gave the candidates aa and ab.
C3_Witness ==
    /\ LongCall
    /\ call.arg.long = <<a>>
    /\ long_options(help_flags, arguments) = <<<<a, a>>, <<b>>, <<a, b>>>>
    /\ IsErr(result)
    /\ result.error = "AmbiguousOption"
    /\ Range(result.list) = {<<a, a>>, <<a, b>>}

\* The order of the characters, for the order of spellings
Alphabet == <<DASH, EQ, a, b, c, e, h, x, y, z>>
CharRank(ch) == CHOOSE i \in 1..Len(Alphabet) : Alphabet[i] = ch

\* s < t as strings compare
StrLess(s, t) ==
    \/ Len(s) < Len(t) /\ IsPrefix(s, t)
    \/ \E i \in 1..Len(s) :
          /\ i <= Len(t)
          /\ \A j \in 1..(i - 1) : s[j] = t[j]
          /\ CharRank(s[i]) < CharRank(t[i])

\* s is declared before t: help spellings first, then by variant, then by
\* place in the variant's attribute
DeclaredBefore(s, t) ==
    \/ s \in Range(help_flags) /\ t \notin Range(help_flags)
    \/ \E i, j \in 1..Len(help_flags) : i < j /\ help_flags[i] = s /\ help_flags[j] = t
    \/ \E i, j \in 1..Len(arguments) :
          /\ i < j
          /\ \E f \in Range(arguments[i].long) : f.flag = s
          /\ \E f \in Range(arguments[j].long) : f.flag = t
    \/ \E i \in 1..Len(arguments) :
          \E k, l \in 1..Len(arguments[i].long) :
              k < l /\ arguments[i].long[k].flag = s /\ arguments[i].long[l].flag = t

AmbiguousResult == LongCall /\ IsErr(result) /\ result.error = "AmbiguousOption"

\* C4, as the claim states it: the candidates of AmbiguousOption are sorted
\* ascending by spelling, for every declaration order.
C4_CandidatesSorted ==
    AmbiguousResult
        => \A i, j \in 1..Len(result.list) :
              i < j => StrLess(result.list[i], result.list[j])

\* C4, amended: the candidates of AmbiguousOption stand in the order in which
\* their spellings were declared, help spellings first.
C4_CandidatesInDeclarationOrder ==
    AmbiguousResult
        => \A i, j \in 1..Len(result.list) :
              i < j => DeclaredBefore(result.list[i], result.list[j])

\* C4 witness: ab was declared before aa, and `--a` gave the candidates ab, aa.
C4_Witness ==
    /\ AmbiguousResult
    /\ call.arg.long = <<a>>
    /\ result.list = <<<<a, b>>, <<a, a>>>>

\* C5: a long name that no declared spelling starts with (so none equals it)
\* and a short character that is no declared short spelling give
\* UnexpectedOption, carrying the option as typed, and no event; a long
\* spelling of the same character does not make a short character known.
C5_UnknownOption ==
    /\ (LongCall /\ Starting(call.arg.long) = {})
          => result = UnexpectedOption(<<DASH, DASH>> \o call.arg.long)
    /\ (ShortCall /\ call.arg.short \notin DeclaredShort)
          => result = UnexpectedOption(<<DASH, call.arg.short>>)

\* C5 witness: `-h` was refused although `--h` is a declared long spelling.
C5_Witness ==
    /\ ShortCall
    /\ call.arg.short = h
    /\ <<h>> \in DeclaredLong
    /\ result = UnexpectedOption(<<DASH, h>>)

\* C5 witness for the long names: `--b` was refused by a model declaring ab and a.
C5_WitnessLong ==
    /\ LongCall
    /\ call.arg.long = <<b>>
    /\ DeclaredLong = {<<a, b>>, <<a>>}
    /\ result = UnexpectedOption(<<DASH, DASH, b>>)

\* C6: a typed name that is a help spelling, or that only one spelling starts
\* with, a help spelling, gives Help and no variant; a typed name that equals
\* no spelling and that a help spelling and another spelling both start with
\* gives AmbiguousOption naming both.
C6_Help ==
    /\ (/\ LongCall
        /\ \/ call.arg.long \in Range(help_flags)
           \/ /\ Cardinality(Starting(call.arg.long)) = 1
              /\ Starting(call.arg.long) \subseteq Range(help_flags))
          => result = Help
    /\ (/\ LongCall
        /\ call.arg.long \notin DeclaredLong
        /\ Starting(call.arg.long) \cap Range(help_flags) # {}
        /\ Starting(call.arg.long) \ Range(help_flags) # {})
          => /\ AmbiguousResult
             /\ Range(result.list) = Starting(call.arg.long)

\* C6 witness: an abbreviation of the help spelling gave Help.
C6_Witness ==
    /\ LongCall
    /\ call.arg.long = <<a>>
    /\ help_flags = <<<<a, b>>>>
    /\ Len(arguments) >= 1
    /\ result = Help

\* C6 witness for the shared pool: a prefix of the help spelling and of an
\* ordinary spelling was ambiguous.
C6_WitnessShared ==
    /\ AmbiguousResult
    /\ help_flags = <<<<a, b>>>>
    /\ Range(result.list) = {<<a, b>>, <<a, a>>}

\* The option of the call as it was typed, without an attached value
TypedOption ==
    IF LongCall THEN <<DASH, DASH>> \o call.arg.long ELSE <<DASH, call.arg.short>>

\* What is left of the cluster behind the short character of the call
ClusterRest == Drop(AfterToken.state.arg, AfterToken.state.pos)

\* The value attached to the option of the call: behind the `=` of a long
\* option; behind the character of a short one, less a leading `=`
Attached ==
    CASE LongCall /\ AfterToken.state.tag = "PendingValue" -> Some(AfterToken.state.arg)
      [] ShortCall /\ ClusterRest # <<>> ->
            Some(IF Head(ClusterRest) = EQ THEN Tail(ClusterRest) ELSE ClusterRest)
      [] OTHER -> None

\* The tokens that follow the token of the call's option
Rest == AfterToken.source

\* The spelling a typed long name stands for, if any
LongResolution ==
    IF ~LongCall THEN {}
    ELSE IF call.arg.long \in DeclaredLong THEN {call.arg.long}
    ELSE IF Cardinality(Starting(call.arg.long)) = 1 THEN Starting(call.arg.long)
    ELSE {}

\* The declared flag the option of the call stands for, with its argument
CalledFlags ==
    {[arg |-> LongOwner(s), flag |-> LongFlag(s)] : s \in LongResolution \ Range(help_flags)}
    \cup (IF ShortCall /\ call.arg.short \in DeclaredShort
          THEN {[arg |-> ShortOwner(call.arg.short), flag |-> ShortFlag(call.arg.short)]}
          ELSE {})

\* The label of the flag the option of the call stands for: the declared
\* spelling with its dashes
Label ==
    IF LongCall /\ LongResolution # {}
    THEN <<DASH, DASH>> \o (CHOOSE s \in LongResolution : TRUE)
    ELSE TypedOption

\* The value v bound to the argument: the variant holding the converted
\* value, or the error of the conversion
Bound(arg, v) == bind(arg, from_value(arg.field, Label, v))

\* C7: for a flag whose value is Required, an attached value is bound and no
\* further token is taken; with none attached the next token is bound,
\* whatever it looks like, and taken from the stream; with no next token the
\* call fails with MissingValue naming the option as it was typed.
C7_RequiredValue ==
    \A cf \in CalledFlags :
        cf.flag.value = "Required"
            => /\ parser.state = StateNone
               /\ CASE Attached # None ->
                          result = Bound(cf.arg, Attached[1]) /\ parser.source = Rest
                    [] Attached = None /\ Rest # <<>> ->
                          result = Bound(cf.arg, Head(Rest)) /\ parser.source = Tail(Rest)
                    [] OTHER ->
                          result = MissingValue(Some(TypedOption)) /\ parser.source = <<>>

\* C7 witness: `-a -c` bound the token `-c` to the Required flag -a.
C7_Witness ==
    /\ ShortCall
    /\ call.arg.short = a
    /\ Attached = None
    /\ Rest # <<>>
    /\ Head(Rest) = <<DASH, c>>
    /\ result = CustomValue(TmpDir.ident, <<DASH, c>>)
    /\ parser.source = Tail(Rest)

\* C7 witness for the missing value: `--ba` at the end of the stream.
C7_WitnessMissing ==
    /\ LongCall
    /\ call.arg.long = <<b, a>>
    /\ Rest = <<>>
    /\ result = MissingValue(Some(<<DASH, DASH, b, a>>))

\* C8: for a flag whose value is Optional, an attached value is converted and
\* carried by the event; with none attached the event carries the declared
\* default and the stream stands where the flag's token left it, so that the
\* token that follows is read as an ordinary next token.
C8_OptionalValue ==
    \A cf \in CalledFlags :
        cf.flag.value = "Optional"
            => /\ parser.source = Rest
               /\ parser.state = StateNone
               /\ IF Attached # None
                  THEN result = Bound(cf.arg, Attached[1])
                  ELSE result = CustomValue(cf.arg.ident, cf.arg.default)

\* C8 witness: `--aa x` gave the default of --aa and left x in the stream.
C8_Witness ==
    /\ LongCall
    /\ call.arg.long = <<a, a>>
    /\ Attached = None
    /\ result = CustomValue(TmpDir.ident, TmpDir.default)
    /\ parser.source # <<>>
    /\ Head(parser.source) = <<x>>

\* C9: an attached empty value is a value: on a Required flag the empty
\* string is bound (converted as any value is) and the next token is not
\* taken; on an Optional flag the empty value is bound and not the declared
\* default.
C9_EmptyAttachedValue ==
    \A cf \in CalledFlags :
        (cf.flag.value \in {"Required", "Optional"} /\ Attached = Some(<<>>))
            => /\ result = Bound(cf.arg, <<>>)
               /\ cf.arg.field \in FieldTypes => result = CustomValue(cf.arg.ident, <<>>)
               /\ parser.source = Rest

\* C9 witness: `--ba= x` bound the empty string to the Required --ba and left
\* x in the stream.
C9_Witness ==
    /\ LongCall
    /\ call.arg.long = <<b, a>>
    /\ Attached = Some(<<>>)
    /\ result = CustomValue(Suffix.ident, <<>>)
    /\ parser.source # <<>>
    /\ Head(parser.source) = <<x>>

\* C9 witness for the Optional flag: `--aa=` bound the empty value, which is
\* not the default of --aa.
C9_WitnessOptional ==
    /\ LongCall
    /\ call.arg.long = <<a, a>>
    /\ Attached = Some(<<>>)
    /\ TmpDir.default # <<>>
    /\ result = CustomValue(TmpDir.ident, <<>>)

\* The sum of max over the slots among the first i arguments: the cumulative
\* upper bound of a slot declared i-th, as a number
RECURSIVE CumulativeUpperBound(_)
CumulativeUpperBound(i) ==
    IF i = 0 THEN 0
    ELSE CumulativeUpperBound(i - 1)
         + (IF arguments[i].kind = "Positional" THEN arguments[i].num_args.end ELSE 0)

SlotIndexes == {i \in 1..Len(arguments) : arguments[i].kind = "Positional"}

\* The first slot in declaration order whose cumulative upper bound is at least k
OwningSlot(k) ==
    {i \in SlotIndexes :
        /\ CumulativeUpperBound(i) >= k
        /\ \A j \in SlotIndexes : j < i => CumulativeUpperBound(j) < k}

\* What binding the value v to the slot gives
BoundToSlot(slot, v) ==
    IF slot.last
    THEN last_positional_expression(slot, v, AfterToken).ret
    ELSE positional_expression(slot, v, AfterToken).ret

\* C10, as the claim states it: a bare value that becomes occurrence k is bound
\* to the first slot in declaration order whose cumulative upper bound (the
\* sum of max over itself and the slots before it) is at least k; when k
\* exceeds the cumulative upper bound of all slots, or no slot is declared,
\* the call fails with UnexpectedArgument carrying the token.
C10_PositionalRouting ==
    ValueCall
        => /\ positional_idx = call.positional_idx + 1
           /\ IF OwningSlot(positional_idx) = {}
              THEN result = UnexpectedArgument(call.arg.value)
              ELSE \A i \in OwningSlot(positional_idx) :
                      result = BoundToSlot(arguments[i], call.arg.value)

\* The slot lists whose cumulative upper bounds are all within usize
BoundsWithinUsize == CumulativeUpperBound(Len(arguments)) <= USIZE_MAX

\* C10 on the slot lists whose cumulative upper bounds are within usize
C10_RoutingWithinUsize == BoundsWithinUsize => C10_PositionalRouting

\* The slots [1,1], [0,1], [0,unbounded) terminal, declared in that order
ThreeSlots ==
    SlotModel(<<RangeOf(1, 1), RangeOf(0, 1), RangeOf(0, USIZE_MAX)>>, TRUE).args

\* C11, as the claim states it: with the slots [1,1], [0,1], [0,unbounded)
\* terminal, the first bare value is bound to slot 1, the second to slot 2,
\* the third (with what follows it) to slot 3, and check_missing reports
\* exactly slot 1 for a counter of 0 and nothing for a counter of 1 or more.
C11_ThreeSlots ==
    arguments = ThreeSlots
        => /\ (ValueCall /\ call.positional_idx = 0)
                => result = CustomValue(SlotIdent(1), call.arg.value)
           /\ (ValueCall /\ call.positional_idx = 1)
                => result = CustomValue(SlotIdent(2), call.arg.value)
           /\ (ValueCall /\ call.positional_idx = 2)
                => result = CustomCollection(SlotIdent(3),
                                             <<call.arg.value>> \o AfterToken.source)
           /\ call.op = "check_missing"
                => result = IF positional_idx = 0
                            THEN MissingPositionalArguments(<<SlotIdent(1)>>)
                            ELSE OkUnit

\* The match arms value_handling has, and the arm that took the value of the
\* call (0 when it is the `_` arm)
Arms == positional_handling(arguments).match_arms
RoutedArm == FirstTrue([k \in 1..Len(Arms) |-> positional_idx <= Arms[k].last_index])

\* The call routed a bare value to the collect-remaining slot
TerminalCall == ValueCall /\ RoutedArm # 0 /\ Arms[RoutedArm].arg.last

\* The value of the call and the tokens that were still in the stream
Collected == <<call.arg.value>> \o AfterToken.source

\* The tokens of ts that the field type ty cannot hold
Unconvertible(ty, ts) == {i \in 1..Len(ts) : ty = "String" /\ BAD \in Range(ts[i])}

\* Nothing is left to read
Exhausted(p) == p.source = <<>> /\ p.state \in {StateNone, FinishedOpts}

\* C12: a call that routes a bare value to the collect-remaining slot takes
\* every token still in the stream as it is, flag-like ones too, and yields
\* the value and those tokens, in input order, as one event (the error of the
\* conversion when a token does not convert); the stream is then at its end,
\* and a call on a stream at its end signals end-of-input and leaves it there.
C12_TerminalCollects ==
    /\ TerminalCall
          => IF Unconvertible(Arms[RoutedArm].arg.field, Collected) = {}
             THEN /\ result = CustomCollection(Arms[RoutedArm].arg.ident, Collected)
                  /\ Exhausted(parser)
             ELSE \E i \in Unconvertible(Arms[RoutedArm].arg.field, Collected) :
                      /\ \A j \in Unconvertible(Arms[RoutedArm].arg.field, Collected) : i <= j
                      /\ result = NonUnicodeValue(Collected[i])
    /\ (call.op = "next_arg" /\ Exhausted(call.parser))
          => result = OkNone /\ Exhausted(parser)

\* C12 witness: x was routed to the collect-remaining slot and the call took the
\* flag-like -c and the y behind it into the same event.
C12_Witness ==
    /\ TerminalCall
    /\ result = CustomCollection(Arms[RoutedArm].arg.ident, <<<<x>>, <<DASH, c>>, <<y>>>>)
    /\ Exhausted(parser)

\* The threshold of the slot declared i-th: the sum of max over the slots
\* before it, plus its own min
Threshold(i) == CumulativeUpperBound(i - 1) + arguments[i].num_args.start

\* The slots with min > 0
MandatorySlots == {i \in SlotIndexes : arguments[i].num_args.start > 0}

\* The names of the slots from the i-th on whose threshold is above the counter
RECURSIVE BelowThreshold(_)
BelowThreshold(i) ==
    IF i > Len(arguments) THEN <<>>
    ELSE (IF i \in MandatorySlots /\ Threshold(i) > positional_idx
          THEN <<arguments[i].ident>>
          ELSE <<>>)
         \o BelowThreshold(i + 1)

CheckMissingCall == call.op = "check_missing"

\* C13: check_missing succeeds when the counter is at least the largest
\* threshold over the slots with min > 0 (always when there is none); else it
\* fails with MissingPositionalArguments listing, in declaration order, the
\* slots with min > 0 whose threshold is above the counter.
C13_CheckMissing ==
    CheckMissingCall
        => IF \A i \in MandatorySlots : positional_idx >= Threshold(i)
           THEN result = OkUnit
           ELSE result = MissingPositionalArguments(BelowThreshold(1))

\* C13 witness: one value met the threshold of slot 1 and not that of slot 2,
\* and check_missing named slot 2 alone.
C13_Witness ==
    /\ CheckMissingCall
    /\ positional_idx = 1
    /\ MandatorySlots = {2, 3}
    /\ result = MissingPositionalArguments(<<SlotIdent(2)>>)

\* No call of next_arg returned an error so far
NoError == \A n \in 1..Len(events) : ~IsErr(events[n])

\* The number of values the first n events bound to the slot: one for each
\* event of the slot, or as many as the event collected
RECURSIVE ValuesBound(_, _)
ValuesBound(slot, n) ==
    IF n = 0 THEN 0
    ELSE ValuesBound(slot, n - 1)
         + (IF events[n].tag = "Custom" /\ events[n].ident = slot.ident
            THEN (IF slot.last THEN Len(events[n].collection) ELSE 1)
            ELSE 0)

\* The names of the slots from the i-th on that were bound fewer values than
\* their declared minimum
RECURSIVE BelowMinimum(_)
BelowMinimum(i) ==
    IF i > Len(arguments) THEN <<>>
    ELSE (IF /\ i \in SlotIndexes
             /\ ValuesBound(arguments[i], Len(events)) < arguments[i].num_args.start
          THEN <<arguments[i].ident>>
          ELSE <<>>)
         \o BelowMinimum(i + 1)

\* C14, as the claim states it: after a parse that reached the end of the
\* input without an error, check_missing fails with MissingPositionalArguments
\* if and only if some slot was bound fewer values than its declared minimum,
\* and it names exactly those slots; the values a collect-remaining slot took
\* in one call all count.
C14_MissingIffBelowMinimum ==
    (CheckMissingCall /\ NoError)
        => IF BelowMinimum(1) = <<>>
           THEN result = OkUnit
           ELSE result = MissingPositionalArguments(BelowMinimum(1))

\* C14 on the models without a collect-remaining slot
C14_WithoutTerminalSlot ==
    (\A i \in SlotIndexes : ~arguments[i].last) => C14_MissingIffBelowMinimum

\* C15, as the claim states it: once a call of next_arg on a cursor has
\* returned an error, no later call on that cursor returns a resolved argument
\* or a second error: an error is the last thing the calls returned.
C15_ErrorEndsIteration ==
    \A n \in 1..Len(events) : IsErr(events[n]) => n = Len(events)

\* The scenario: b2sum was given -b foo bar and its parse came to check_missing
B2sumParsed(last) ==
    /\ arguments = B2sum(last).args
    /\ input = <<<<DASH, b>>, foo, bar>>
    /\ CheckMissingCall

\* C17, as the claim states it: with -b/--binary, -c/--check and the terminal
\* positional FILE of any number of values, the input -b foo bar yields the
\* events Binary, File(foo), File(bar) in that order, and check_missing
\* reports nothing missing.
C17_B2sumEvents ==
    B2sumParsed(TRUE)
        => /\ events = <<Custom(Binary.ident),
                         CustomValue(File(TRUE).ident, foo),
                         CustomValue(File(TRUE).ident, bar)>>
           /\ result = OkUnit

\* C17, amended: with FILE declared as a collect-remaining slot the input
\* -b foo bar yields Binary and then one File event that holds foo and bar in
\* that order; with FILE not declared so it yields Binary, File(foo),
\* File(bar); check_missing reports nothing missing in either case.
C17_B2sumCollected ==
    /\ B2sumParsed(TRUE)
          => /\ events = <<Custom(Binary.ident),
                           CustomCollection(File(TRUE).ident, <<foo, bar>>)>>
             /\ result = OkUnit
    /\ B2sumParsed(FALSE)
          => /\ events = <<Custom(Binary.ident),
                           CustomValue(File(FALSE).ident, foo),
                           CustomValue(File(FALSE).ident, bar)>>
             /\ result = OkUnit

\* C17 witness: the parse of -b foo bar with the collect-remaining FILE came to
\* check_missing after two events.
C17_Witness ==
    /\ B2sumParsed(TRUE)
    /\ Len(events) = 2
    /\ events[2] = CustomCollection(File(TRUE).ident, <<foo, bar>>)
    /\ result = OkUnit

\* The call read a character of a cluster behind its first one
ContinuesCluster ==
    /\ ShortCall
    /\ call.parser.state.tag = "Shorts"
    /\ call.parser.state.pos < Len(call.parser.state.arg)

\* C18: in a short cluster a character whose flag takes no value yields the
\* flag's event and leaves the characters behind it in the cluster; a call that
\* finds characters left in a cluster reads the next of them as a short flag
\* (so an undeclared one fails the parse); a character whose flag requires a
\* value is bound the characters behind it, which yield no event of their own.
C18_ShortClusters ==
    /\ \A cf \in CalledFlags :
          (ShortCall /\ cf.flag.value = "No")
              => /\ result = IF cf.arg.takes_value
                             THEN CustomValue(cf.arg.ident, cf.arg.default)
                             ELSE Custom(cf.arg.ident)
                 /\ parser = AfterToken
    /\ ContinuesCluster
          => /\ call.arg.short = call.parser.state.arg[call.parser.state.pos + 1]
             /\ call.arg.short \notin DeclaredShort
                   => result = UnexpectedOption(<<DASH, call.arg.short>>)
    /\ \A cf \in CalledFlags :
          (ShortCall /\ cf.flag.value = "Required" /\ ClusterRest # <<>>)
              => /\ result = Bound(cf.arg, Attached[1])
                 /\ parser.state = StateNone
                 /\ parser.source = Rest

\* C18 witness: -bc yielded Binary and then Check.
C18_Witness ==
    /\ input = <<<<DASH, b, c>>>>
    /\ ContinuesCluster
    /\ events = <<Custom(Binary.ident), Custom(Check.ident)>>

\* C18 witness for a flag declared without a value: -ex yielded the default of
\* -e and then failed on x, which is no declared short flag.
C18_WitnessNoValue ==
    /\ input = <<<<DASH, e, x>>>>
    /\ events = <<CustomValue(Classify.ident, Classify.default),
                  UnexpectedOption(<<DASH, x>>)>>

\* C18 witness for a required value: -ax bound x to -a and yielded nothing else.
C18_WitnessRequired ==
    /\ input = <<<<DASH, a, x>>>>
    /\ result = OkNone
    /\ events = <<CustomValue(TmpDir.ident, <<x>>)>>

\* The event the token stands for in the model of -b, -t and FILE
EventOf(token) ==
    CASE token = <<DASH, b>> -> Custom(Binary.ident)
      [] token = <<DASH, "t">> -> Custom(Text.ident)
      [] OTHER -> CustomValue(File(FALSE).ident, token)

\* The places of the input where -b or -t stands
BinaryWriters == {n \in 1..Len(input) : input[n] \in {<<DASH, b>>, <<DASH, "t">>}}

\* The tokens of the input from the n-th on that are no flags
RECURSIVE FilesFrom(_)
FilesFrom(n) ==
    IF n > Len(input) THEN <<>>
    ELSE (IF input[n][1] # DASH THEN <<input[n]>> ELSE <<>>) \o FilesFrom(n + 1)

\* C19: the arguments are yielded in the order of their tokens in the input,
\* and the settings Options::parse gives at the end of the input are the
\* default with the arguments applied in that order: of -b and -t, which write
\* the same setting, the one later in the input decides, and the files are
\* collected in input order.
C19_InputOrder ==
    arguments = BinaryText.args
        => /\ \A n \in 1..Len(events) : events[n] = EventOf(input[n])
           /\ CheckMissingCall
                => /\ parse(events).tag = "Ok"
                   /\ parse(events).settings.binary =
                         (/\ BinaryWriters # {}
                          /\ \E n \in BinaryWriters :
                                /\ \A k \in BinaryWriters : k <= n
                                /\ input[n] = <<DASH, b>>)
                   /\ parse(events).settings.files = FilesFrom(1)

\* C19 witness: -b foo -t left binary unset, as -t is the later of the two.
C19_Witness ==
    /\ arguments = BinaryText.args
    /\ CheckMissingCall
    /\ input = <<<<DASH, b>>, foo, <<DASH, "t">>>>
    /\ parse(events) = [tag |-> "Ok", settings |-> [binary |-> FALSE, files |-> <<foo>>]]

\* C19 witness for the collected values: bar foo -b gave the files bar, foo.
C19_WitnessFiles ==
    /\ arguments = BinaryText.args
    /\ CheckMissingCall
    /\ parse(events) = [tag |-> "Ok", settings |-> [binary |-> TRUE, files |-> <<bar, foo>>]]

\* The call read a long flag that is declared to take no value, typed with a
\* value attached
NoValueFlagWithValue ==
    /\ LongCall
    /\ Attached # None
    /\ \E cf \in CalledFlags : cf.flag.value = "No"

\* The call before this one left the value attached to a long option unread
ValueLeftPending ==
    /\ call.op = "next_arg"
    /\ call.parser.state.tag = "PendingValue"
    /\ call.parser.last_option.tag = "Long"

\* C20 as stated: the call that reads `--flag=x` for a flag that takes no
\* value returns UnexpectedValue with the option and x, and the flag's event
\* is not yielded.
C20_UnexpectedValue ==
    NoValueFlagWithValue
        => /\ result = UnexpectedValue(TypedOption, Attached[1])
           /\ \A cf \in CalledFlags : \A n \in 1..Len(events) : events[n] # Custom(cf.arg.ident)

\* C20 amended: the call that reads `--flag=x` for a flag that takes no value
\* yields the flag's event and leaves x pending; the next_arg call that
\* follows it reads no token and returns UnexpectedValue with the option as
\* it was typed and x.
C20_UnexpectedValueOnFollowingCall ==
    /\ NoValueFlagWithValue
         => /\ \A cf \in CalledFlags : result = Custom(cf.arg.ident)
            /\ parser.state = PendingValue(Attached[1])
            /\ parser.source = Rest
    /\ (ValueLeftPending /\ events[Len(events) - 1].tag = "Custom")
         => /\ result = UnexpectedValue(call.parser.last_option.text, call.parser.state.arg)
            /\ parser.source = call.parser.source

\* C20 witness: `--c=x` gave the event of the flag c, and the call after it
\* gave UnexpectedValue for --c and x.
C20_Witness ==
    /\ ValueLeftPending
    /\ Len(events) >= 2
    /\ events[Len(events) - 1] = Custom(Quiet.ident)
    /\ result = UnexpectedValue(<<DASH, DASH, c>>, <<x>>)

\* A decimal digit, and the digit it stands for
IsDigit(ch) == \E d \in 0..9 : ToString(d) = ch
DigitValue(ch) == CHOOSE d \in 0..9 : ToString(d) = ch

\* The digits of a text behind its sign, and the number they write
LiteralDigits(text) ==
    IF text # <<>> /\ Head(text) \in {"+", DASH} THEN Tail(text) ELSE text
RECURSIVE ValueOfDigits(_)
ValueOfDigits(ds) ==
    IF ds = <<>> THEN 0
    ELSE ValueOfDigits(Take(ds, Len(ds) - 1)) * 10 + DigitValue(ds[Len(ds)])

\* The text is a decimal literal of the type: one or more digits, behind an
\* optional `+` or, for a signed type, `-`
IsLiteral(ty, text) ==
    /\ LiteralDigits(text) # <<>>
    /\ \A i \in 1..Len(LiteralDigits(text)) : IsDigit(LiteralDigits(text)[i])
    /\ Head(text) = DASH => is_signed_ty(ty)
LiteralValue(text) ==
    IF Head(text) = DASH
    THEN 0 - ValueOfDigits(LiteralDigits(text))
    ELSE ValueOfDigits(LiteralDigits(text))

\* The text is a literal of a number in the range of the type
InRange(ty, text) ==
    /\ IsLiteral(ty, text)
    /\ LiteralValue(text) >= IntMin(ty)
    /\ LiteralValue(text) <= IntMax(ty)

\* The call resolved a flag with an integer destination and a value attached
IntegerCall ==
    /\ Attached # None
    /\ \E cf \in CalledFlags : cf.arg.field \in IntTypes /\ cf.flag.value # "No"

\* C21: when the conversion of a flag's value fails, the call returns
\* ParsingFailed with the raw text of the value and the label of the flag,
\* which is the declared spelling with its dashes: `-c` for a short flag,
\* `--name` for a long one, also when an abbreviation of the name was typed.
C21_ParsingFailedLabel ==
    \A cf \in CalledFlags :
        (IntegerCall /\ into_string_ok(Attached[1]) /\ ~InRange(cf.arg.field, Attached[1]))
            => /\ IsErr(result)
               /\ result.error = "ParsingFailed"
               /\ result.value = Attached[1]
               /\ result.option = Some(IF LongCall
                                       THEN <<DASH, DASH>> \o cf.flag.flag
                                       ELSE <<DASH, cf.flag.flag>>)

\* C21 witness: `--i=x`, an abbreviation of --i8, failed with the label --i8.
C21_Witness ==
    /\ LongCall
    /\ call.arg.long = <<"i">>
    /\ result = ParsingFailed(<<DASH, DASH, "i", "8">>, <<x>>, "InvalidDigit")

\* C21 witness for a short flag: `-u256` failed with the label -u.
C21_WitnessShort ==
    /\ ShortCall
    /\ result = ParsingFailed(<<DASH, "u">>, <<"2", "5", "6">>, "PosOverflow")

\* C29: the conversion to an integer type succeeds exactly when the text is
\* a decimal literal of the type (digits behind an optional `+`, or `-` for a
\* signed type) whose value lies in the range of the type, and then gives
\* that number; any other Unicode text, a value outside the range included,
\* fails with ParsingFailed, and a text that is not valid Unicode fails with
\* NonUnicodeValue.
C29_IntegerConversion ==
    \A cf \in CalledFlags :
        IntegerCall
            => CASE ~into_string_ok(Attached[1]) -> result = NonUnicodeValue(Attached[1])
                 [] into_string_ok(Attached[1]) /\ InRange(cf.arg.field, Attached[1]) ->
                        result = CustomValue(cf.arg.ident, Number(LiteralValue(Attached[1])))
                 [] OTHER -> IsErr(result) /\ result.error = "ParsingFailed"

\* C29 witness: 256 failed to convert to the 8-bit unsigned type.
C29_Witness ==
    /\ IntegerCall
    /\ LongCall
    /\ call.arg.long = <<"u", "8">>
    /\ Attached = Some(<<"2", "5", "6">>)
    /\ result = ParsingFailed(<<DASH, DASH, "u", "8">>, <<"2", "5", "6">>, "PosOverflow")

\* C29 witness for the largest number of the type: 255 was converted.
C29_WitnessMax ==
    /\ IntegerCall
    /\ result = CustomValue(U8.ident, Number(255))

\* C29 witness for the smallest number of the signed type: -128 was converted.
C29_WitnessMin ==
    /\ IntegerCall
    /\ Attached = Some(<<DASH, "1", "2", "8">>)
    /\ result = CustomValue(I8.ident, Number(0 - 128))

\* C29 witness for a text that is not valid Unicode.
C29_WitnessNonUnicode ==
    /\ IntegerCall
    /\ result = NonUnicodeValue(<<"5", BAD>>)

\* The call resolved a flag whose destination is an enumerated type, with a
\* value attached that is valid Unicode
EnumCall ==
    /\ Attached # None
    /\ into_string_ok(Attached[1])
    /\ \E cf \in CalledFlags : cf.arg.field \in EnumTypes /\ cf.flag.value # "No"

\* The variants of the type with a key equal to the text, and with a key that
\* starts with the text
KeyVariants(ty, text) ==
    {value_keys(ty)[i].variant : i \in {k \in 1..Len(value_keys(ty)) : value_keys(ty)[k].key = text}}
PrefixVariants(ty, text) ==
    {value_keys(ty)[i].variant :
        i \in {k \in 1..Len(value_keys(ty)) : IsPrefix(text, value_keys(ty)[k].key)}}

\* C22: a text equal to a declared key converts to the variant of that key;
\* else a text that is a prefix of keys of exactly one variant converts to
\* that variant; a text that is a prefix of keys of two or more variants, or
\* of no key, fails.
C22_EnumeratedValue ==
    \A cf \in CalledFlags :
        EnumCall
            => CASE KeyVariants(cf.arg.field, Attached[1]) # {} ->
                        \A kv \in KeyVariants(cf.arg.field, Attached[1]) :
                            result = CustomValue(cf.arg.ident, Variant(kv))
                 [] KeyVariants(cf.arg.field, Attached[1]) = {}
                      /\ Cardinality(PrefixVariants(cf.arg.field, Attached[1])) = 1 ->
                        \A pv \in PrefixVariants(cf.arg.field, Attached[1]) :
                            result = CustomValue(cf.arg.ident, Variant(pv))
                 [] OTHER -> IsErr(result)

\* C22 witness: `--time=a`, a prefix of access and atime, gave Access.
C22_Witness ==
    /\ EnumCall
    /\ Attached = Some(<<"a">>)
    /\ result = CustomValue(TimeArg.ident, Variant("Access"))

\* C22 witness for a prefix of keys of two variants: `--foo=de` failed with
\* the candidates deck and desk.
C22_WitnessAmbiguous ==
    /\ EnumCall
    /\ Attached = Some(<<"d", "e">>)
    /\ IsErr(result)
    /\ result.error = "AmbiguousValue"
    /\ Len(result.list) = 2

\* C22 witness for a key that other keys start with: `shell` gave Shell.
C22_WitnessExact ==
    /\ EnumCall
    /\ Attached = Some(<<"s", "h", "e", "l", "l">>)
    /\ result = CustomValue(QuotingStyleArg.ident, Variant("Shell"))

\* C22 witness for a text no key starts with.
C22_WitnessNone ==
    /\ EnumCall
    /\ Attached = Some(<<"x">>)
    /\ IsErr(result)

\* The number of values the events bound to the slots from the i-th
\* argument on
RECURSIVE ValuesConsumed(_)
ValuesConsumed(i) ==
    IF i > Len(arguments) THEN 0
    ELSE (IF i \in SlotIndexes THEN ValuesBound(arguments[i], Len(events)) ELSE 0)
         + ValuesConsumed(i + 1)

\* C23, as the claim states it: at every point of a parse without an error
\* the positional counter is the number of positional values consumed so far,
\* each value collected into the terminal slot counting as one.
C23_CounterCountsValues ==
    NoError => positional_idx = ValuesConsumed(1)

\* C23 on the models without a collect-remaining slot
C23_WithoutTerminalSlot ==
    (\A i \in SlotIndexes : ~arguments[i].last) => C23_CounterCountsValues

\* C24, as the claim states it: an empty long name, as in `--=value`, is
\* never resolved to a flag by prefix matching: the call that reads it gives
\* neither a business event nor Help, whatever long spellings are declared,
\* a single one included.
C24_EmptyNameNeverResolves ==
    (LongCall /\ call.arg.long = <<>>) => IsErr(result)

\* The value requirements the spellings of the option declare
Requirements(o) ==
    {o.short[i].value : i \in 1..Len(o.short)} \cup {o.long[i].value : i \in 1..Len(o.long)}

\* C25, as the claim states it: a flag whose spelling declares no value and
\* whose destination holds a value is rejected when the parser is built, so
\* no declared flag is of that kind and no event of a flag without a value
\* carries a value.
C25_NoValueFlagCarriesNothing ==
    /\ \A o \in Options : "No" \in Requirements(o) => o.field = FieldNone
    /\ \A cf \in CalledFlags :
          (cf.flag.value = "No" /\ result.tag = "Custom") => result.fields = 0

\* C25 amended: what is rejected when the parser is built is a flag whose
\* spelling declares a value while the destination holds none; a flag whose
\* spelling declares no value while the destination holds a value is
\* accepted, and its event carries the declared default, no value being read
\* from the input.
C25_NoValueFlagCarriesDefault ==
    /\ \A o \in Options : Requirements(o) \ {"No"} # {} => o.field # FieldNone
    /\ \A cf \in CalledFlags :
          cf.flag.value = "No"
              => /\ result = IF cf.arg.field = FieldNone
                             THEN Custom(cf.arg.ident)
                             ELSE CustomValue(cf.arg.ident, cf.arg.default)
                 /\ parser = AfterToken

\* C25 witness: -e, declared without a value for a variant with a field, gave
\* the event with the declared default, the attached x left unread.
C25_Witness ==
    /\ ShortCall
    /\ call.arg.short = e
    /\ ClusterRest = <<x>>
    /\ Classify.field # FieldNone
    /\ result = CustomValue(Classify.ident, Classify.default)

\* C26, as the claim states it: when the typed long name resolves to a
\* recognized version spelling, by the resolution help spellings go through
\* (the name equals the spelling, or is a prefix of it and of no other
\* spelling), the call returns the Version sentinel and no business event.
C26_VersionSentinel ==
    (/\ arguments = Versioned.args
     /\ LongCall
     /\ \E vs \in Range(version_flags) :
           \/ call.arg.long = vs
           \/ /\ IsPrefix(call.arg.long, vs)
              /\ call.arg.long \notin DeclaredLong
              /\ Starting(call.arg.long) = {})
        => result = Version

\* C27: a call that resolves a flag, short or long, of any value requirement,
\* Help included, leaves the positional counter as it was, and the event of a
\* flag is the event of no slot, also when the flag took the next token for
\* its value; a call that reads a bare value adds exactly one to the counter;
\* no other call changes it.
C27_FlagsLeaveCounter ==
    /\ (LongCall \/ ShortCall)
          => /\ positional_idx = call.positional_idx
             /\ result.tag = "Custom"
                   => \A i \in SlotIndexes : result.ident # arguments[i].ident
    /\ ValueCall => positional_idx = call.positional_idx + 1
    /\ (call.op = "next_arg" /\ ~(LongCall \/ ShortCall \/ ValueCall))
          => positional_idx = call.positional_idx

\* C27 witness: after one positional value, `-a x` bound x to the Required
\* flag -a and the counter stayed at one.
C27_Witness ==
    /\ ShortCall
    /\ call.arg.short = a
    /\ Attached = None
    /\ result = CustomValue(TmpDir.ident, <<x>>)
    /\ call.positional_idx = 1
    /\ positional_idx = 1

\* C27 witness for Help: the counter stayed as it was.
C27_WitnessHelp ==
    /\ LongCall
    /\ result = Help
    /\ positional_idx = call.positional_idx

\* C27 witness for a bare value: the counter went from one to two.
C27_WitnessValue ==
    /\ ValueCall
    /\ call.positional_idx = 1
    /\ positional_idx = 2

\* The characters of the short cluster that are still to be read
ClusterLeft(p) == IF p.state.tag = "Shorts" THEN Len(p.state.arg) - p.state.pos ELSE 0

\* The last call returned an event
Yielded == call.op = "next_arg" /\ result.tag \in {"Custom", "Help"}

\* The last call took a token from the stream, or a character of the cluster
\* it was in
Consumed ==
    \/ Len(parser.source) < Len(call.parser.source)
    \/ /\ Len(parser.source) = Len(call.parser.source)
       /\ ClusterLeft(parser) < ClusterLeft(call.parser)

\* The end of the input was signalled: by the last call, or before the call
\* of check_missing
EndSignalled == result = OkNone \/ call.op = "check_missing"

\* C28: every call that returns an event consumes at least one token or one
\* character of a short cluster; the calls of next_arg on a finite input come
\* to the end of the input or to an error; and once the end was signalled
\* every later call signals it again.
C28_Terminates ==
    /\ [](Yielded => Consumed)
    /\ <>(call.op = "next_arg" /\ (result = OkNone \/ IsErr(result)))
    /\ [][(EndSignalled /\ call'.op = "next_arg") => result' = OkNone]_vars

\* C28 witness: a parse of three tokens, each of which gave an event, came to
\* the end of the input, and the call after check_missing signalled the end
\* again.
C28_Witness ==
    /\ Len(input) = 3
    /\ Len(events) = 3
    /\ NoError
    /\ call.op = "next_arg"
    /\ result = OkNone
    /\ Exhausted(call.parser)

----------------------------------------------------------------------------
\* C30: the range the claim gives for an attribute, in usize arithmetic
ExpectedStart(attr) ==
    IF attr.tag = "None" THEN 1
    ELSE IF attr.tag = "Int" THEN attr.n
    ELSE IF attr.from = None THEN 0 ELSE attr.from[1]
ExpectedEnd(attr) ==
    IF attr.tag = "None" THEN 1
    ELSE IF attr.tag = "Int" THEN attr.n
    ELSE IF attr.to = None THEN USIZE_MAX
    ELSE IF attr.inclusive THEN attr.to[1]
    ELSE (attr.to[1] - 1) % (2^UsizeBits)
AttrParsed == attribute # NoAttribute /\ positional_attr # NotParsed

\* C30: the positional range attribute is translated to an inclusive range
\* in machine unsigned arithmetic: no arguments gives [1,1], n gives [n,n],
\* a..=b gives [a,b], a..b gives [a,b-1] for every literal b, an omitted
\* lower bound gives 0 and an omitted upper bound the largest usize.
\* Violated: for a..0 the derive built with overflow checks panics on b - 1.
C30_RangeTranslation ==
    AttrParsed =>
        positional_attr = ParsedAttr(RangeOf(ExpectedStart(attribute), ExpectedEnd(attribute)))

\* C30: the translation holds of every attribute but an exclusive range
\* whose upper bound is the literal 0
C30_ExceptZeroUpperBound ==
    (/\ AttrParsed
     /\ ~(attribute.tag = "Range" /\ attribute.to = Some(0) /\ ~attribute.inclusive))
    => positional_attr = ParsedAttr(RangeOf(ExpectedStart(attribute), ExpectedEnd(attribute)))

\* C30: an exclusive range with a positive upper bound has been translated
C30_Witness ==
    /\ AttrParsed
    /\ attribute = AttrRange(Some(1), Some(2), FALSE)
    /\ positional_attr = ParsedAttr(RangeOf(1, 1))
====
